---- MODULE Spec2Model ----
(***************************************************************************)
(* Matching and ranking in AlumniVerse Pro.                                *)
(*                                                                         *)
(* Three ranking calls exist in the repository:                            *)
(*   AME    AlumniMatchingEngine.findMatches          (lib/ai/alumniMatcher) *)
(*   IME    IntelligentMatchingEngine.findBestMatches (lib/ai/alumniMatcher) *)
(*   ROUTE  POST /api/ai/match                        (app/api/ai/match)     *)
(*                                                                         *)
(* JavaScript numbers are modelled as exact rationals [n, d] with d > 0;   *)
(* NaN is the record with d = 0.  JavaScript strings are modelled as       *)
(* sequences of one-character strings, so that toLowerCase, split, trim    *)
(* and includes are computed character by character.                       *)
(***************************************************************************)
EXTENDS Integers, Sequences, FiniteSets, TLC

VARIABLES
    location1, location2, geoResult,     \* the geographic calculators' bench
    skSeeker, skAlumni, skBefore, skAfter, \* the skill calculators' bench
    mtSeeker, mtCandidate, mtContext, mtResult, \* the mentorship calculators' bench
    engine, apiKey,                      \* which engine runs, and its environment
    embeddings, vectorCache,             \* the caches of the two engines
    pc, request, response,               \* the ranking call in progress
    emCalls,                             \* the calls of getMockEmbedding so far
    frSeeker, frPool, frCriteria, frBefore, \* the caller's profiles around a call
    caEngine, caProfiles, caCache, caClock, caCalls, caLog, \* an engine's vector cache
    suSeeker, suCandidate, suResult,     \* the bench of the sub-score calculators
    wtEngine, wtRequest, wtFactor, wtBase, wtScaled, \* a call and the call with scaled weights
    coA, coB, coResult,                  \* the bench of the cosine similarity
    rsEngine, rsInput, rsResult,         \* the reasons of one scored candidate
    flEngine, flPool, flCalls, flSeeker, flTask, \* the provider requests of one ranking call
    rcEngine, rcProfile, rcCache, rcPc, rcResp, rcRet, rcWriter, \* two embed requests at once
    inRequest, inResult,                 \* a call of findMatches with its insights
    lxText1, lxText2, lxResult           \* the bench of the lexical similarity

geoVars == <<location1, location2, geoResult>>
skillVars == <<skSeeker, skAlumni, skBefore, skAfter>>
mentorVars == <<mtSeeker, mtCandidate, mtContext, mtResult>>
rankVars == <<engine, apiKey, embeddings, vectorCache, pc, request, response>>
embedVars == <<emCalls>>
frameVars == <<frSeeker, frPool, frCriteria, frBefore>>
cacheVars == <<caEngine, caProfiles, caCache, caClock, caCalls, caLog>>
subVars == <<suSeeker, suCandidate, suResult>>
weightVars == <<wtEngine, wtRequest, wtFactor, wtBase, wtScaled>>
cosVars == <<coA, coB, coResult>>
reasonVars == <<rsEngine, rsInput, rsResult>>
flightVars == <<flEngine, flPool, flCalls, flSeeker, flTask>>
raceVars == <<rcEngine, rcProfile, rcCache, rcPc, rcResp, rcRet, rcWriter>>
insightVars == <<inRequest, inResult>>
lexVars == <<lxText1, lxText2, lxResult>>
lateVars == <<reasonVars, flightVars, raceVars, insightVars, lexVars>>
midVars == <<embedVars, frameVars, cacheVars, subVars, weightVars, cosVars>>
moreVars == <<midVars, lateVars>>
oldVars == <<geoVars, skillVars, mentorVars, rankVars, midVars>>
\* every variable outside one of the later benches
notReason == <<oldVars, flightVars, raceVars, insightVars, lexVars>>
notFlight == <<oldVars, reasonVars, raceVars, insightVars, lexVars>>
notRace == <<oldVars, reasonVars, flightVars, insightVars, lexVars>>
notInsight == <<oldVars, reasonVars, flightVars, raceVars, lexVars>>
notLex == <<oldVars, reasonVars, flightVars, raceVars, insightVars>>
vars == <<geoVars, skillVars, mentorVars, rankVars, moreVars>>

(***************************************************************************)
(* Numbers                                                                 *)
(***************************************************************************)
Abs(x) == IF x < 0 THEN -x ELSE x

RECURSIVE GCD(_, _)
GCD(a, b) == IF b = 0 THEN a ELSE GCD(b, a % b)

NaN == [n |-> 0, d |-> 0]

R(n, d) ==
    IF d = 0 THEN NaN
    ELSE LET g == GCD(Abs(n), Abs(d))
             s == IF d < 0 THEN -1 ELSE 1
         IN  [n |-> s * (n \div g), d |-> s * (d \div g)]

IsNaN(a) == a.d = 0

Zero == R(0, 1)
One == R(1, 1)

\* The operands are reduced by their common factors before they are multiplied,
\* so that the intermediate products stay small.
Plus(a, b) ==
    IF IsNaN(a) \/ IsNaN(b) THEN NaN
    ELSE LET g == GCD(a.d, b.d)
         IN  R(a.n * (b.d \div g) + b.n * (a.d \div g), (a.d \div g) * b.d)
Times(a, b) ==
    IF IsNaN(a) \/ IsNaN(b) THEN NaN
    ELSE LET g1 == GCD(Abs(a.n), b.d)
             g2 == GCD(Abs(b.n), a.d)
         IN  IF a.n = 0 \/ b.n = 0 THEN R(0, 1)
             ELSE R((a.n \div g1) * (b.n \div g2), (a.d \div g2) * (b.d \div g1))
Minus(a, b) == Plus(a, Times(R(-1, 1), b))
\* a / b; the only division by zero the programs perform is 0 / 0.
Over(a, b) ==
    IF IsNaN(a) \/ IsNaN(b) \/ b.n = 0 THEN NaN ELSE Times(a, R(b.d, b.n))

\* Comparisons with NaN are false, as in JavaScript.
Lt(a, b) ==
    /\ ~IsNaN(a)
    /\ ~IsNaN(b)
    /\ LET g == GCD(a.d, b.d) IN a.n * (b.d \div g) < b.n * (a.d \div g)
Gt(a, b) == Lt(b, a)
Le(a, b) == ~IsNaN(a) /\ ~IsNaN(b) /\ ~Lt(b, a)
Ge(a, b) == Le(b, a)

MathMin(a, b) == IF IsNaN(a) \/ IsNaN(b) THEN NaN ELSE IF Lt(b, a) THEN b ELSE a
MathMax(a, b) == IF IsNaN(a) \/ IsNaN(b) THEN NaN ELSE IF Lt(a, b) THEN b ELSE a

InUnit(a) == Le(Zero, a) /\ Le(a, One)

(***************************************************************************)
(* Strings                                                                 *)
(***************************************************************************)
UpperChars == <<"A","B","C","D","E","F","G","H","I","J","K","L","M",
                "N","O","P","Q","R","S","T","U","V","W","X","Y","Z">>
LowerChars == <<"a","b","c","d","e","f","g","h","i","j","k","l","m",
                "n","o","p","q","r","s","t","u","v","w","x","y","z">>

LowerChar(c) ==
    IF \E i \in 1..26 : UpperChars[i] = c
    THEN LowerChars[CHOOSE i \in 1..26 : UpperChars[i] = c]
    ELSE c

toLowerCase(s) == [i \in 1..Len(s) |-> LowerChar(s[i])]

IsSpace(c) == c = " "

\* s.includes(t)
includes(s, t) ==
    \E i \in 0..(Len(s) - Len(t)) : SubSeq(s, i + 1, i + Len(t)) = t

\* The pieces of s between the positions where IsSep holds.  cuts are those
\* positions with 0 before them and Len(s) + 1 after them.
Cuts(s, IsSep(_)) ==
    <<0>> \o SelectSeq([i \in 1..Len(s) |-> i], LAMBDA i : IsSep(s[i])) \o <<Len(s) + 1>>

Piece(s, cuts, k) == SubSeq(s, cuts[k] + 1, cuts[k + 1] - 1)

\* s.split(sep) for a one-character separator: never empty, '' gives [''].
split(s, sep) ==
    LET cuts == Cuts(s, LAMBDA c : c = sep)
    IN  [k \in 1..(Len(cuts) - 1) |-> Piece(s, cuts, k)]

\* str.split(re) for a regular expression matching runs of separators: the
\* empty piece between two adjacent separators is not a piece.
splitRuns(s, IsSep(_)) ==
    LET cuts == Cuts(s, IsSep)
        kept == SelectSeq([k \in 1..(Len(cuts) - 1) |-> k],
                          LAMBDA k : ~(/\ k > 1
                                       /\ k + 1 < Len(cuts)
                                       /\ cuts[k + 1] = cuts[k] + 1))
    IN  [j \in 1..Len(kept) |-> Piece(s, cuts, kept[j])]

\* s.trim(): from the first to the last character that is not a space
trim(s) ==
    LET inked == {i \in 1..Len(s) : ~IsSpace(s[i])}
    IN  IF inked = {} THEN <<>>
        ELSE SubSeq(s, CHOOSE i \in inked : \A j \in inked : i <= j,
                       CHOOSE i \in inked : \A j \in inked : j <= i)

\* xs.map(f), xs.filter(p), xs.some(p) over sequences
Map(xs, F(_)) == [i \in 1..Len(xs) |-> F(xs[i])]

Filter(xs, P(_)) == SelectSeq(xs, P)

Some(xs, P(_)) == \E i \in 1..Len(xs) : P(xs[i])

Range(xs) == {xs[i] : i \in 1..Len(xs)}

\* const value = x, then F(value): x is evaluated once
With(x, F(_)) == CHOOSE y \in {F(value) : value \in {x}} : TRUE

(***************************************************************************)
(* Location inputs                                                         *)
(***************************************************************************)
L_SanFranciscoCA == <<"S","a","n"," ","F","r","a","n","c","i","s","c","o",","," ","C","A">>
L_sanfranciscoca == <<"s","a","n"," ","f","r","a","n","c","i","s","c","o",","," ","c","a">>
L_LosAngelesCA == <<"L","o","s"," ","A","n","g","e","l","e","s",","," ","C","A">>
L_BostonMA == <<"B","o","s","t","o","n",","," ","M","A">>
L_SeattleWA == <<"S","e","a","t","t","l","e",","," ","W","A">>
L_AustinTX == <<"A","u","s","t","i","n",","," ","T","X">>
L_DallasTexas == <<"D","a","l","l","a","s",","," ","T","e","x","a","s">>
L_MiamiFlorida == <<"M","i","a","m","i",","," ","F","l","o","r","i","d","a">>
L_DenverCO == <<"D","e","n","v","e","r",","," ","C","O">>
L_NewYorkNY == <<"N","e","w"," ","Y","o","r","k",","," ","N","Y">>
L_Empty == <<>>

Locations ==
    { L_SanFranciscoCA, L_sanfranciscoca, L_LosAngelesCA, L_BostonMA, L_SeattleWA,
      L_AustinTX, L_DallasTexas, L_MiamiFlorida, L_DenverCO, L_NewYorkNY, L_Empty }

(***************************************************************************)
(* Skill and department inputs                                             *)
(***************************************************************************)
K_Java == <<"J","a","v","a">>
K_JavaScript == <<"J","a","v","a","S","c","r","i","p","t">>
K_Python == <<"P","y","t","h","o","n">>
K_AWS == <<"A","W","S">>
K_Leadership == <<"L","e","a","d","e","r","s","h","i","p">>
D_ComputerScience == <<"C","o","m","p","u","t","e","r"," ","S","c","i","e","n","c","e">>
D_History == <<"H","i","s","t","o","r","y">>

(***************************************************************************)
(* POST /api/ai/match: geographic proximity                                *)
(***************************************************************************)
westCoast == << <<"c","a">>, <<"c","a","l","i","f","o","r","n","i","a">>, <<"w","a">>, <<"w","a","s","h","i","n","g","t","o","n">>, <<"o","r">>, <<"o","r","e","g","o","n">> >>
eastCoast == << <<"n","y">>, <<"n","e","w"," ","y","o","r","k">>, <<"m","a">>, <<"m","a","s","s","a","c","h","u","s","e","t","t","s">>, <<"c","t">>, <<"c","o","n","n","e","c","t","i","c","u","t">> >>
texas == << <<"t","x">>, <<"t","e","x","a","s">> >>

getState(loc) ==
    LET parts == Map(split(loc, ","), trim)
    IN  parts[Len(parts)]

isInRegion(region, state) == \E i \in 1..Len(region) : includes(state, region[i])

isWestCoast(state) == isInRegion(westCoast, state)
isEastCoast(state) == isInRegion(eastCoast, state)
isTexas(state) == isInRegion(texas, state)

Route_calculateGeographicProximity(loc1raw, loc2raw) ==
    LET loc1 == toLowerCase(loc1raw)
        loc2 == toLowerCase(loc2raw)
        state1 == getState(loc1)
        state2 == getState(loc2)
    IN  IF loc1 = loc2 THEN R(1, 1)
        ELSE IF state1 = state2 THEN R(7, 10)
        ELSE IF \/ (isWestCoast(state1) /\ isWestCoast(state2))
                \/ (isEastCoast(state1) /\ isEastCoast(state2))
                \/ (isTexas(state1) /\ isTexas(state2))
             THEN R(5, 10)
        ELSE R(2, 10)

(***************************************************************************)
(* Exceptions and missing fields.  A profile lists in missing the fields *)
(* that are undefined on the object; reading a property of an undefined    *)
(* field throws a TypeError.                                               *)
(***************************************************************************)
TypeError == [throw |-> "TypeError"]
Throws(v) == v = TypeError
IsMissing(profile, field) == field \in profile.missing

\* Math.max(k, 1)
MaxOne(k) == IF k > 1 THEN k ELSE 1

Skill(name) == [name |-> name, level |-> "Advanced"]
SkillNamesLower(skills) == Map(skills, LAMBDA sk : toLowerCase(sk.name))

(***************************************************************************)
(* POST /api/ai/match: skills                                              *)
(***************************************************************************)
\* calculateSkillsMatch with the match score taken per alumni skill
Route_calculateSkillsMatch_PerAlumniSkill(studentSkills, alumniSkills) ==
    LET studentSkillsLower == Map(studentSkills, toLowerCase)
        alumniSkillsLower == Map(alumniSkills, toLowerCase)
        matchingSkills ==
            Filter(studentSkillsLower, LAMBDA skill :
                Some(alumniSkillsLower, LAMBDA alumniSkill :
                    includes(alumniSkill, skill) \/ includes(skill, alumniSkill)))
        complementarySkills ==
            Filter(alumniSkillsLower, LAMBDA skill :
                ~Some(studentSkillsLower, LAMBDA studentSkill :
                    includes(studentSkill, skill) \/ includes(skill, studentSkill)))
        matchScore == R(Len(matchingSkills), MaxOne(Len(alumniSkills)))
        complementScore == MathMin(R(Len(complementarySkills), 5), One)
    IN  Plus(Times(matchScore, R(4, 10)), Times(complementScore, R(6, 10)))

Route_calculateSkillsMatch(studentSkills, alumniSkills) ==
    LET studentSkillsLower == Map(studentSkills, toLowerCase)
        alumniSkillsLower == Map(alumniSkills, toLowerCase)
        matchingSkills ==
            Filter(studentSkillsLower, LAMBDA skill :
                Some(alumniSkillsLower, LAMBDA alumniSkill :
                    includes(alumniSkill, skill) \/ includes(skill, alumniSkill)))
        complementarySkills ==
            Filter(alumniSkillsLower, LAMBDA skill :
                ~Some(studentSkillsLower, LAMBDA studentSkill :
                    includes(studentSkill, skill) \/ includes(skill, studentSkill)))
        matchScore == R(Len(matchingSkills), MaxOne(Len(studentSkills)))
        complementScore == MathMin(R(Len(complementarySkills), 5), One)
    IN  Plus(Times(matchScore, R(4, 10)), Times(complementScore, R(6, 10)))

(***************************************************************************)
(* AlumniMatchingEngine: skill complement                                  *)
(***************************************************************************)
careerMap(dept) ==
    IF dept = <<"c","o","m","p","u","t","e","r"," ","s","c","i","e","n","c","e">> THEN << <<"r","e","a","c","t">>, <<"p","y","t","h","o","n">>, <<"a","w","s">>, <<"d","o","c","k","e","r">>, <<"k","u","b","e","r","n","e","t","e","s">> >>
    ELSE IF dept = <<"b","u","s","i","n","e","s","s">> THEN << <<"e","x","c","e","l">>, <<"p","o","w","e","r","p","o","i","n","t">>, <<"s","q","l">>, <<"t","a","b","l","e","a","u">>, <<"s","a","l","e","s","f","o","r","c","e">> >>
    ELSE IF dept = <<"e","n","g","i","n","e","e","r","i","n","g">> THEN << <<"a","u","t","o","c","a","d">>, <<"m","a","t","l","a","b">>, <<"p","y","t","h","o","n">>, <<"p","r","o","j","e","c","t"," ","m","a","n","a","g","e","m","e","n","t">> >>
    ELSE IF dept = <<"m","a","r","k","e","t","i","n","g">>
         THEN << <<"g","o","o","g","l","e"," ","a","n","a","l","y","t","i","c","s">>, <<"a","d","o","b","e"," ","c","r","e","a","t","i","v","e"," ","s","u","i","t","e">>, <<"s","o","c","i","a","l"," ","m","e","d","i","a">>, <<"s","e","o">> >>
    ELSE << <<"c","o","m","m","u","n","i","c","a","t","i","o","n">>, <<"l","e","a","d","e","r","s","h","i","p">>, <<"p","r","o","b","l","e","m"," ","s","o","l","v","i","n","g">> >>

inferNeededSkills(profile) == careerMap(toLowerCase(profile.department))

AME_calculateSkillComplement(seeker, alumni) ==
    IF IsMissing(seeker, "skills") \/ IsMissing(alumni, "skills") THEN TypeError
    ELSE
    LET seekerSkills == SkillNamesLower(seeker.skills)
        alumniSkills == SkillNamesLower(alumni.skills)
        overlap == Filter(seekerSkills, LAMBDA skill : skill \in Range(alumniSkills))
        overlapRatio == R(Len(overlap), MaxOne(Len(seekerSkills)))
        seekerNeeds == inferNeededSkills(seeker)
        complement == Filter(alumniSkills, LAMBDA skill : skill \in Range(seekerNeeds))
        complementRatio == R(Len(complement), MaxOne(Len(seekerNeeds)))
    IN  Plus(Times(overlapRatio, R(4, 10)), Times(complementRatio, R(6, 10)))

(***************************************************************************)
(* IntelligentMatchingEngine: skill complementarity                        *)
(***************************************************************************)
IME_calculateSkillComplementarity(userProfile, candidateProfile) ==
    IF IsMissing(userProfile, "skills") \/ IsMissing(candidateProfile, "skills")
    THEN TypeError
    ELSE
    LET userSkills == Range(SkillNamesLower(userProfile.skills))
        candidateSkills == Range(SkillNamesLower(candidateProfile.skills))
        overlap == userSkills \cap candidateSkills
        totalSkills == userSkills \cup candidateSkills
        overlapScore == R(Cardinality(overlap), MaxOne(Cardinality(userSkills)))
        diversityScore ==
            R(Cardinality(totalSkills) - Cardinality(overlap),
              MaxOne(Cardinality(totalSkills)))
    IN  Plus(Times(overlapScore, R(6, 10)), Times(diversityScore, R(4, 10)))

(***************************************************************************)
(* Character codes and AlumniMatchingEngine.simpleHash.  The hash is a     *)
(* 32-bit integer; it is kept in two 16-bit limbs so that the wrap-around  *)
(* of ((hash << 5) - hash) + char is computed exactly.  Ascii lists the    *)
(* characters of codes 32 to 126 (three of them by name).                    *)
(***************************************************************************)
Ascii ==
    <<
      " ","!","QUOTE","#","$","%","&","'","(",")","*","+",",","-",".","/",
      "0","1","2","3","4","5","6","7","8","9",":",";","<","=",">","?",
      "@","A","B","C","D","E","F","G","H","I","J","K","L","M","N","O",
      "P","Q","R","S","T","U","V","W","X","Y","Z","[","BACKSLASH","]","^","_",
      "BACKTICK","a","b","c","d","e","f","g","h","i","j","k","l","m","n","o",
      "p","q","r","s","t","u","v","w","x","y","z","{","|","}","~" >>

charCodeAt(c) == 31 + (CHOOSE i \in 1..Len(Ascii) : Ascii[i] = c)

Limb == 65536

\* hash = ((hash << 5) - hash) + char; hash = hash & hash
hashStep(hash, char) ==
    LET t == hash.lo * 31 + char
    IN  [lo |-> t % Limb, hi |-> (hash.hi * 31 + t \div Limb) % Limb]

HashValues == [lo : 0..(Limb - 1), hi : 0..(Limb - 1)]

\* The loop of simpleHash over str[from..to], entered with hash.  The range
\* is halved so that the evaluation stays shallow; the characters are still
\* taken from left to right.
RECURSIVE hashLoop(_, _, _, _)
hashLoop(str, from, to, hash) ==
    IF from > to THEN hash
    ELSE IF from = to THEN hashStep(hash, charCodeAt(str[from]))
    ELSE LET mid == (from + to) \div 2
             left == hashLoop(str, from, mid, hash)
         IN  IF left \in HashValues THEN hashLoop(str, mid + 1, to, left) ELSE left

\* Math.abs of the signed 32-bit value held in the limbs
absInt32(hash) ==
    IF hash.hi < 32768 THEN hash
    ELSE [lo |-> (Limb - hash.lo) % Limb,
          hi |-> (Limb - hash.hi - (IF hash.lo = 0 THEN 0 ELSE 1)) % Limb]

simpleHash(str) == absInt32(hashLoop(str, 1, Len(str), [lo |-> 0, hi |-> 0]))

\* (hash + i) % 1000 for a non-negative hash in limbs
hashPlusMod1000(hash, i) == ((hash.hi % 1000) * (Limb % 1000) + hash.lo + i) % 1000

(***************************************************************************)
(* Embedding vectors.  A vector of the remote provider has RemoteDim       *)
(* entries, of which only the leading ones (head) may differ from 0.  A    *)
(* vector of getMockEmbedding has MockDim entries, entry i being           *)
(* ((hash + i) % 1000) / 1000 - 0.5; it is fixed by seed = hash % 1000.     *)
(***************************************************************************)
RemoteDim == 1536
MockDim == 100

RemoteVector(head) == [dim |-> RemoteDim, mock |-> FALSE, seed |-> 0, head |-> head]
MockVector(seed) == [dim |-> MockDim, mock |-> TRUE, seed |-> seed, head |-> <<>>]

getMockEmbedding(text) == MockVector(hashPlusMod1000(simpleHash(text), 0))

\* Array(1536).fill(0)
ZeroVector == RemoteVector(<<>>)

\* an entry without the shift by 0.5
Entry_NoShift(v, i) ==
    IF v.mock THEN (v.seed + (i - 1)) % 1000
    ELSE IF i <= Len(v.head) THEN v.head[i] ELSE 0

\* entry i (from 1) of a vector, in thousandths for a mock vector
Entry(v, i) ==
    IF v.mock THEN ((v.seed + (i - 1)) % 1000) - 500
    ELSE IF i <= Len(v.head) THEN v.head[i] ELSE 0

Support(v) == IF v.mock THEN v.dim ELSE Len(v.head)

\* the sum of a[i] * b[i] over from..to, by halves
RECURSIVE SumProducts(_, _, _, _)
SumProducts(a, b, from, to) ==
    IF from > to THEN 0
    ELSE IF from = to THEN Entry(a, from) * Entry(b, from)
    ELSE LET mid == (from + to) \div 2
         IN  SumProducts(a, b, from, mid) + SumProducts(a, b, mid + 1, to)

Dot(a, b) ==
    LET k == IF Support(a) < Support(b) THEN Support(a) ELSE Support(b)
    IN  SumProducts(a, b, 1, k)

Norm2(a) == Dot(a, a)

RECURSIVE RootBetween(_, _, _)
\* the largest r in lo..hi with r * r <= x
RootBetween(x, lo, hi) ==
    IF lo >= hi THEN lo
    ELSE LET mid == (lo + hi + 1) \div 2
         IN  IF mid * mid <= x THEN RootBetween(x, mid, hi)
             ELSE RootBetween(x, lo, mid - 1)

FloorRoot(x) == RootBetween(x, 0, 46340)
IsSquare(x) == FloorRoot(x) * FloorRoot(x) = x
CeilRoot(x) == IF IsSquare(x) THEN FloorRoot(x) ELSE FloorRoot(x) + 1

\* floor(1000 * num / den) / 1000 for 0 <= num <= den, by long division
Thousandths(num, den) ==
    LET q0 == num \div den
        r0 == num % den
        q1 == (r0 * 10) \div den
        r1 == (r0 * 10) % den
        q2 == (r1 * 10) \div den
        r2 == (r1 * 10) % den
        q3 == (r2 * 10) \div den
    IN  R(q0 * 1000 + q1 * 100 + q2 * 10 + q3, 1000)

\* dot / (Math.sqrt(normA) * Math.sqrt(normB)) for non-zero norms.  The value
\* is exact when it is rational in the roots of the norms; an irrational value is
\* given to three decimals, rounded towards 0.
DotOverRoots(dot, normA, normB) ==
    IF normA = normB THEN R(dot, normA)
    ELSE IF IsSquare(normA) /\ IsSquare(normB)
         THEN R(dot, FloorRoot(normA) * FloorRoot(normB))
    ELSE LET den == CeilRoot(normA) * CeilRoot(normB)
             q == Thousandths(Abs(dot), den)
         IN  IF dot < 0 THEN Minus(Zero, q) ELSE q

\* AlumniMatchingEngine.calculateCosineSimilarity: no guard on zero norms
AME_calculateCosineSimilarity(a, b) ==
    IF a.dim # b.dim THEN Zero
    ELSE IF Norm2(a) = 0 \/ Norm2(b) = 0 THEN NaN
    ELSE DotOverRoots(Dot(a, b), Norm2(a), Norm2(b))

\* IntelligentMatchingEngine.calculateCosineSimilarity
IME_calculateCosineSimilarity(vectorA, vectorB) ==
    IF vectorA.dim # vectorB.dim THEN Zero
    ELSE IF Norm2(vectorA) = 0 \/ Norm2(vectorB) = 0 THEN Zero
    ELSE DotOverRoots(Dot(vectorA, vectorB), Norm2(vectorA), Norm2(vectorB))

(***************************************************************************)
(* POST /api/ai/match: semantic similarity.  resp is what the embedding  *)
(* provider does for the two requests of one call: it fails, or it returns *)
(* the two vectors.                                                        *)
(***************************************************************************)
IsWhitespace(c) == c = " "

calculateSimpleTextSimilarity(text1, text2) ==
    LET words1 == splitRuns(toLowerCase(text1), IsWhitespace)
        words2 == splitRuns(toLowerCase(text2), IsWhitespace)
        commonWords == Filter(words1, LAMBDA word : word \in Range(words2))
        totalWords == Cardinality(Range(words1) \cup Range(words2))
    IN  R(Len(commonWords), totalWords)

ProviderFails == [ok |-> FALSE, e1 |-> ZeroVector, e2 |-> ZeroVector]
ProviderReturns(e1, e2) == [ok |-> TRUE, e1 |-> e1, e2 |-> e2]

Route_calculateSemanticSimilarity(text1, text2, resp) ==
    IF ~resp.ok THEN calculateSimpleTextSimilarity(text1, text2)
    ELSE IF Norm2(resp.e1) = 0 \/ Norm2(resp.e2) = 0 THEN Zero
    ELSE DotOverRoots(Dot(resp.e1, resp.e2), Norm2(resp.e1), Norm2(resp.e2))

(***************************************************************************)
(* Texts of the route's mockAlumni, of the engines, and of the inputs      *)
(***************************************************************************)
s_fallback == <<"f","a","l","l","b","a","c","k">>
T_Software == <<"S","o","f","t","w","a","r","e">>
T_Technology == <<"T","e","c","h","n","o","l","o","g","y">>
T_SoftwareEngineering == <<"S","o","f","t","w","a","r","e"," ","E","n","g","i","n","e","e","r","i","n","g">>
T_SeniorSoftwareEngineer == <<"S","e","n","i","o","r"," ","S","o","f","t","w","a","r","e"," ","E","n","g","i","n","e","e","r">>
T_Accountant == <<"A","c","c","o","u","n","t","a","n","t">>
T_Banking == <<"B","a","n","k","i","n","g">>
T_JohnDoe == <<"J","o","h","n"," ","D","o","e">>
T_bio_student == <<"L","o","v","e"," ","A","I"," ","a","n","d"," ","m","e","n","t","o","r","i","n","g">>

(***************************************************************************)
(* POST /api/ai/match: the demo data the route ranks                       *)
(***************************************************************************)
mockAlumni ==
    << [id |-> "1", name |-> <<"S","a","r","a","h"," ","C","h","e","n">>, currentPosition |-> <<"S","e","n","i","o","r"," ","S","o","f","t","w","a","r","e"," ","E","n","g","i","n","e","e","r">>,
        currentCompany |-> <<"G","o","o","g","l","e">>, industry |-> <<"T","e","c","h","n","o","l","o","g","y">>,
        graduationYear |-> 2018,
        skills |-> << <<"J","a","v","a","S","c","r","i","p","t">>, <<"P","y","t","h","o","n">>, <<"M","a","c","h","i","n","e"," ","L","e","a","r","n","i","n","g">>, <<"C","l","o","u","d"," ","A","r","c","h","i","t","e","c","t","u","r","e">> >>,
        location |-> <<"S","a","n"," ","F","r","a","n","c","i","s","c","o",","," ","C","A">>, bio |-> <<"P","a","s","s","i","o","n","a","t","e"," ","a","b","o","u","t"," ","A","I"," ","a","n","d"," ","f","u","l","l","-","s","t","a","c","k"," ","d","e","v","e","l","o","p","m","e","n","t","."," ","L","o","v","e"," ","m","e","n","t","o","r","i","n","g"," ","n","e","w"," ","g","r","a","d","u","a","t","e","s",".">>, isAvailableForMentoring |-> TRUE],
       [id |-> "2", name |-> <<"M","i","c","h","a","e","l"," ","R","o","d","r","i","g","u","e","z">>, currentPosition |-> <<"P","r","o","d","u","c","t"," ","M","a","n","a","g","e","r">>,
        currentCompany |-> <<"M","e","t","a">>, industry |-> <<"T","e","c","h","n","o","l","o","g","y">>,
        graduationYear |-> 2019,
        skills |-> << <<"P","r","o","d","u","c","t"," ","S","t","r","a","t","e","g","y">>, <<"D","a","t","a"," ","A","n","a","l","y","s","i","s">>, <<"U","s","e","r"," ","R","e","s","e","a","r","c","h">>, <<"A","g","i","l","e">> >>,
        location |-> <<"S","e","a","t","t","l","e",","," ","W","A">>, bio |-> <<"P","r","o","d","u","c","t"," ","l","e","a","d","e","r"," ","w","i","t","h"," ","e","x","p","e","r","i","e","n","c","e"," ","i","n"," ","s","o","c","i","a","l"," ","p","l","a","t","f","o","r","m","s"," ","a","n","d"," ","A","R","/","V","R",".">>, isAvailableForMentoring |-> TRUE],
       [id |-> "3", name |-> <<"D","r","."," ","E","m","i","l","y"," ","J","o","h","n","s","o","n">>, currentPosition |-> <<"R","e","s","e","a","r","c","h"," ","S","c","i","e","n","t","i","s","t">>,
        currentCompany |-> <<"S","t","a","n","f","o","r","d"," ","R","e","s","e","a","r","c","h"," ","I","n","s","t","i","t","u","t","e">>, industry |-> <<"H","e","a","l","t","h","c","a","r","e">>,
        graduationYear |-> 2016,
        skills |-> << <<"B","i","o","m","e","d","i","c","a","l"," ","E","n","g","i","n","e","e","r","i","n","g">>, <<"D","a","t","a"," ","S","c","i","e","n","c","e">>, <<"R","e","s","e","a","r","c","h">>, <<"P","u","b","l","i","c","a","t","i","o","n","s">> >>,
        location |-> <<"P","a","l","o"," ","A","l","t","o",","," ","C","A">>, bio |-> <<"R","e","s","e","a","r","c","h","i","n","g"," ","A","I"," ","a","p","p","l","i","c","a","t","i","o","n","s"," ","i","n"," ","h","e","a","l","t","h","c","a","r","e"," ","a","n","d"," ","m","e","d","i","c","a","l"," ","d","e","v","i","c","e","s",".">>, isAvailableForMentoring |-> TRUE],
       [id |-> "4", name |-> <<"D","a","v","i","d"," ","P","a","r","k">>, currentPosition |-> <<"S","t","a","r","t","u","p"," ","F","o","u","n","d","e","r">>,
        currentCompany |-> <<"T","e","c","h","F","l","o","w"," ","S","o","l","u","t","i","o","n","s">>, industry |-> <<"E","n","t","r","e","p","r","e","n","e","u","r","s","h","i","p">>,
        graduationYear |-> 2017,
        skills |-> << <<"L","e","a","d","e","r","s","h","i","p">>, <<"B","u","s","i","n","e","s","s"," ","S","t","r","a","t","e","g","y">>, <<"F","u","n","d","r","a","i","s","i","n","g">>, <<"P","r","o","d","u","c","t"," ","D","e","v","e","l","o","p","m","e","n","t">> >>,
        location |-> <<"A","u","s","t","i","n",","," ","T","X">>, bio |-> <<"S","e","r","i","a","l"," ","e","n","t","r","e","p","r","e","n","e","u","r"," ","f","o","c","u","s","e","d"," ","o","n"," ","B","2","B"," ","S","a","a","S"," ","s","o","l","u","t","i","o","n","s",".">>, isAvailableForMentoring |-> TRUE],
       [id |-> "5", name |-> <<"J","e","s","s","i","c","a"," ","W","o","n","g">>, currentPosition |-> <<"U","X"," ","D","e","s","i","g","n"," ","L","e","a","d">>,
        currentCompany |-> <<"A","p","p","l","e">>, industry |-> <<"T","e","c","h","n","o","l","o","g","y">>,
        graduationYear |-> 2020,
        skills |-> << <<"U","s","e","r"," ","E","x","p","e","r","i","e","n","c","e">>, <<"D","e","s","i","g","n"," ","S","y","s","t","e","m","s">>, <<"P","r","o","t","o","t","y","p","i","n","g">>, <<"U","s","e","r"," ","R","e","s","e","a","r","c","h">> >>,
        location |-> <<"C","u","p","e","r","t","i","n","o",","," ","C","A">>, bio |-> <<"C","r","e","a","t","i","n","g"," ","i","n","t","u","i","t","i","v","e"," ","u","s","e","r"," ","e","x","p","e","r","i","e","n","c","e","s"," ","f","o","r"," ","c","o","n","s","u","m","e","r"," ","p","r","o","d","u","c","t","s",".">>, isAvailableForMentoring |-> TRUE] >>

(***************************************************************************)
(* Profiles of the two engines.  A StudentProfile and an AlumniProfile are *)
(* records of one shape; kind says which properties the object has       *)
(* ('careerInterests' in profile, 'yearsExperience' in profile, ...).  An  *)
(* optional property that is absent holds '' or 0, which is what the       *)
(* engines replace it by (x || '', x || 0).                                *)
(***************************************************************************)
IsStudent(profile) == profile.kind = "student"
IsAlumni(profile) == profile.kind = "alumni"

\* s.join(' ') of a list of strings
RECURSIVE join(_, _)
join(strs, sep) ==
    IF strs = <<>> THEN <<>>
    ELSE IF Len(strs) = 1 THEN strs[1]
    ELSE strs[1] \o sep \o join(Tail(strs), sep)

(***************************************************************************)
(* AlumniMatchingEngine: career similarity, geographic proximity,          *)
(* mentorship fit                                                          *)
(***************************************************************************)
CountWhere(xs, P(_)) == Len(SelectSeq(xs, P))

AME_calculateCareerSimilarity(seeker, alumni) ==
    LET dept == IF seeker.department = alumni.department THEN R(4, 10) ELSE Zero
        currentRole == toLowerCase(alumni.currentPosition)
        industry == toLowerCase(alumni.industry)
        hits ==
            IF IsStudent(seeker)
            THEN CountWhere(seeker.careerInterests, LAMBDA interest :
                     \/ includes(currentRole, toLowerCase(interest))
                     \/ includes(industry, toLowerCase(interest)))
            ELSE 0
        expDiff == Abs(seeker.yearsExperience - alumni.yearsExperience)
        experience ==
            IF IsAlumni(seeker)
            THEN MathMax(Zero, Minus(R(3, 10), Times(R(expDiff, 1), R(5, 100))))
            ELSE Zero
        score == Plus(Plus(dept, Times(R(hits, 1), R(3, 10))), experience)
    IN  MathMin(score, One)

AME_extractLocation(profile) ==
    IF IsAlumni(profile) THEN profile.workLocation ELSE profile.institutionLocation

AME_calculateGeographicProximity(seeker, alumni) ==
    LET seekerLocation == AME_extractLocation(seeker)
        alumniLocation == alumni.workLocation
        seekerParts == Map(split(seekerLocation, ","), LAMBDA p : toLowerCase(trim(p)))
        alumniParts == Map(split(alumniLocation, ","), LAMBDA p : toLowerCase(trim(p)))
        commonParts ==
            Filter(seekerParts, LAMBDA part :
                Some(alumniParts, LAMBDA ap : includes(ap, part) \/ includes(part, ap)))
    IN  IF seekerLocation = <<>> \/ alumniLocation = <<>> THEN Zero
        ELSE IF toLowerCase(seekerLocation) = toLowerCase(alumniLocation) THEN One
        ELSE IF Len(commonParts) > 0 THEN R(7, 10)
        ELSE Zero

AME_calculateMentorshipFit(seeker, alumni) ==
    IF ~alumni.isMentor THEN Zero
    ELSE
    LET base == R(5, 10)
        seeking ==
            IF IsStudent(seeker) /\ seeker.isSeekingMentorship THEN R(3, 10) ELSE Zero
        seekerExp == IF IsAlumni(seeker) THEN seeker.yearsExperience ELSE 0
        expGap == alumni.yearsExperience - seekerExp
        gap == IF expGap >= 3 /\ expGap <= 15 THEN R(2, 10) ELSE Zero
        seekerInterests ==
            IF IsStudent(seeker) THEN seeker.careerInterests ELSE <<seeker.department>>
        alignment ==
            Some(alumni.mentorCategories, LAMBDA category :
                Some(seekerInterests, LAMBDA interest :
                    \/ includes(toLowerCase(category), toLowerCase(interest))
                    \/ includes(toLowerCase(interest), toLowerCase(category))))
        aligned ==
            IF Len(alumni.mentorCategories) > 0 /\ alignment THEN R(2, 10) ELSE Zero
    IN  MathMin(Plus(Plus(Plus(base, seeking), gap), aligned), One)

(***************************************************************************)
(* IntelligentMatchingEngine: career similarity, geographic score,         *)
(* mentorship fit.  Career similarity is what a language model answers:    *)
(* the completion fails, or its text does not parse as a number, or it     *)
(* parses as the number value.                                           *)
(***************************************************************************)
LLMFails == [ok |-> FALSE, parses |-> FALSE, value |-> Zero]
LLMGarbage == [ok |-> TRUE, parses |-> FALSE, value |-> Zero]
LLMAnswers(value) == [ok |-> TRUE, parses |-> TRUE, value |-> value]

IME_calculateCareerSimilarity(llm) ==
    IF ~llm.ok THEN R(5, 10)
    ELSE IF ~llm.parses THEN R(5, 10)
    ELSE MathMax(Zero, MathMin(One, llm.value))

IME_extractLocation(profile) ==
    IF IsAlumni(profile)
    THEN IF profile.workLocation # <<>> THEN profile.workLocation
         ELSE profile.institutionLocation
    ELSE profile.institutionLocation

IsCommaOrSpace(c) == c = "," \/ c = " "

IME_calculateGeographicScore(userProfile, candidateProfile) ==
    LET userLocation == IME_extractLocation(userProfile)
        candidateLocation ==
            IF candidateProfile.workLocation # <<>> THEN candidateProfile.workLocation
            ELSE candidateProfile.institutionLocation
        userParts == splitRuns(toLowerCase(userLocation), IsCommaOrSpace)
        candidateParts == splitRuns(toLowerCase(candidateLocation), IsCommaOrSpace)
        commonParts == CountWhere(userParts, LAMBDA part : part \in Range(candidateParts))
    IN  IF userLocation = <<>> \/ candidateLocation = <<>> THEN R(3, 10)
        ELSE IF toLowerCase(userLocation) = toLowerCase(candidateLocation) THEN One
        ELSE MathMin(Times(R(commonParts, 1), R(3, 10)), R(8, 10))

IME_calculateMentorshipFit(context, candidateProfile) ==
    IF context.context # "mentorship" THEN R(5, 10)
    ELSE IF ~candidateProfile.isMentor THEN R(1, 10)
    ELSE
    LET userInterests == Map(context.userProfile.careerInterests, toLowerCase)
        mentorCategories == Map(candidateProfile.mentorCategories, toLowerCase)
        alignment ==
            CountWhere(userInterests, LAMBDA interest :
                Some(mentorCategories, LAMBDA category :
                    includes(category, interest) \/ includes(interest, category)))
        bonus ==
            IF IsStudent(context.userProfile)
            THEN Times(R(alignment, MaxOne(Len(userInterests))), R(3, 10))
            ELSE Zero
    IN  MathMin(Plus(R(7, 10), bonus), One)

(***************************************************************************)
(* POST /api/ai/match: the score of one criterion (the switch of           *)
(* calculateMatchScore).  resp is the provider's behaviour for the       *)
(* criterion's similarity call.                                            *)
(***************************************************************************)
Route_criterionScore(type, studentProfile, alumniProfile, resp) ==
    IF type = "career_similarity" THEN
        LET careerText ==
                studentProfile.major \o <<" ">> \o join(studentProfile.careerInterests, <<" ">>)
            alumniCareerText ==
                alumniProfile.currentPosition \o <<" ">> \o alumniProfile.industry
        IN  Route_calculateSemanticSimilarity(careerText, alumniCareerText, resp)
    ELSE IF type = "skill_complement" THEN
        IF IsMissing(studentProfile, "skills") THEN TypeError
        ELSE Route_calculateSkillsMatch(studentProfile.skills, alumniProfile.skills)
    ELSE IF type = "mentorship_fit" THEN
        IF ~alumniProfile.isAvailableForMentoring \/ ~studentProfile.isSeekingMentorship
        THEN Zero
        ELSE LET mentorshipScore ==
                     Route_calculateSemanticSimilarity(
                         studentProfile.bio, alumniProfile.bio, resp)
             IN  Plus(Times(mentorshipScore, R(8, 10)), R(2, 10))
    ELSE IF type = "geographic_proximity" THEN
        Route_calculateGeographicProximity(studentProfile.location, alumniProfile.location)
    ELSE Zero

(***************************************************************************)
(* The geographic bench: two location strings are given, then scored.      *)
(***************************************************************************)
NoResult == [none |-> TRUE]

GeoIdle ==
    /\ location1 = <<>>
    /\ location2 = <<>>
    /\ geoResult = NoResult

GeoInit ==
    /\ location1 \in Locations
    /\ location2 \in Locations
    /\ geoResult = NoResult

GeoScore ==
    /\ geoResult = NoResult
    /\ geoResult' = [route |-> Route_calculateGeographicProximity(location1, location2)]
    /\ UNCHANGED <<location1, location2, skillVars, mentorVars, rankVars, moreVars>>

(***************************************************************************)
(* The skill bench: a seeker and a candidate skill list are given and      *)
(* scored by the three calculators; then one of the seeker's skills is     *)
(* added to the candidate's list and the lists are scored again.           *)
(***************************************************************************)
MaxSkills == 2

SkillNames == {K_Java, K_JavaScript, K_Python, K_AWS}
Departments == {D_ComputerScience, D_History}

RECURSIVE SeqsUpTo(_, _)
SeqsUpTo(S, k) ==
    IF k = 0 THEN {<<>>}
    ELSE LET shorter == SeqsUpTo(S, k - 1)
         IN  shorter \cup {Append(q, x) : q \in shorter, x \in S}

SkillLists == SeqsUpTo(SkillNames, MaxSkills)

SkillProfile(dept, names) ==
    [department |-> dept, skills |-> Map(names, Skill), missing |-> {}]

SkillScores(seeker, alumniNames) ==
    [route |-> Route_calculateSkillsMatch(seeker.names, alumniNames),
     ame |-> AME_calculateSkillComplement(SkillProfile(seeker.department, seeker.names),
                                          SkillProfile(D_History, alumniNames)),
     ime |-> IME_calculateSkillComplementarity(
                 SkillProfile(seeker.department, seeker.names),
                 SkillProfile(D_History, alumniNames))]

SkillIdle ==
    /\ skSeeker = [department |-> <<>>, names |-> <<>>]
    /\ skAlumni = <<>>
    /\ skBefore = NoResult
    /\ skAfter = NoResult

SkillInit ==
    /\ skSeeker \in [department : Departments, names : SkillLists]
    /\ skAlumni \in SkillLists
    /\ skBefore = NoResult
    /\ skAfter = NoResult

SkillScore ==
    /\ skBefore = NoResult
    /\ skBefore' = SkillScores(skSeeker, skAlumni)
    /\ UNCHANGED <<skSeeker, skAlumni, skAfter, geoVars, mentorVars, rankVars, moreVars>>

\* The candidate gains one of the seeker's skills.
SkillAdd ==
    /\ skBefore # NoResult
    /\ skAfter = NoResult
    /\ \E i \in 1..Len(skSeeker.names) :
        /\ skAlumni' = Append(skAlumni, skSeeker.names[i])
        /\ skAfter' = SkillScores(skSeeker, Append(skAlumni, skSeeker.names[i]))
    /\ UNCHANGED <<skSeeker, skBefore, geoVars, mentorVars, rankVars, moreVars>>

(***************************************************************************)
(* Profiles given to the engines.  yearsExperience, isMentor and the       *)
(* other alumni properties of a student record are never read: the         *)
(* engines test the kind first.                                            *)
(***************************************************************************)
Student(id, department, skillNames, careerInterests, isSeekingMentorship, location) ==
    [kind |-> "student", id |-> id, department |-> department,
     skills |-> Map(skillNames, Skill), careerInterests |-> careerInterests,
     isSeekingMentorship |-> isSeekingMentorship,
     currentPosition |-> <<>>, industry |-> <<>>,
     workLocation |-> <<>>, institutionLocation |-> location,
     yearsExperience |-> 0, isMentor |-> FALSE, mentorCategories |-> <<>>,
     lastActive |-> 0, missing |-> {}]

Alumni(id, department, skillNames, currentPosition, industry, workLocation, yearsExperience, isMentor, mentorCategories) ==
    [kind |-> "alumni", id |-> id, department |-> department,
     skills |-> Map(skillNames, Skill), careerInterests |-> <<>>,
     isSeekingMentorship |-> FALSE,
     currentPosition |-> currentPosition, industry |-> industry,
     workLocation |-> workLocation, institutionLocation |-> <<>>,
     yearsExperience |-> yearsExperience, isMentor |-> isMentor,
     mentorCategories |-> mentorCategories,
     lastActive |-> 1, missing |-> {}]

RouteStudent(name, major, careerInterests, skills, location, isSeekingMentorship, bio) ==
    [name |-> name, major |-> major, careerInterests |-> careerInterests,
     skills |-> skills, location |-> location,
     isSeekingMentorship |-> isSeekingMentorship, bio |-> bio, missing |-> {}]

(***************************************************************************)
(* The mentorship bench: a seeker, a candidate and a matching context are  *)
(* given, then the three mentorship calculators score the pair.  The       *)
(* route reads the two flags from its arguments; its candidate is the      *)
(* first of mockAlumni with the availability flag of the bench candidate.  *)
(***************************************************************************)
MentorSeekers ==
    {Student("s1", D_ComputerScience, <<K_Java>>, ci, seeking, L_BostonMA) :
        ci \in {<<>>, <<T_Software>>}, seeking \in BOOLEAN}
    \cup
    {Alumni("s2", D_ComputerScience, <<K_Java>>, T_SoftwareEngineering, T_Technology,
            L_BostonMA, ye, FALSE, <<>>) : ye \in {0, 5}}

MentorCandidates ==
    {Alumni("a1", D_ComputerScience, <<K_Java>>, T_SeniorSoftwareEngineer, T_Technology,
            L_BostonMA, ye, isMentor, mc) :
        ye \in {2, 10}, isMentor \in BOOLEAN, mc \in {<<>>, <<T_SoftwareEngineering>>}}

Contexts == {"networking", "mentorship", "career_guidance", "collaboration"}

MentorResponses ==
    {ProviderFails,
     ProviderReturns(RemoteVector(<<3, 4>>), RemoteVector(<<4, 3>>)),
     ProviderReturns(RemoteVector(<<3, 4>>), RemoteVector(<<-3, -4>>))}

MentorIdle ==
    /\ mtSeeker = NoResult
    /\ mtCandidate = NoResult
    /\ mtContext = "networking"
    /\ mtResult = NoResult

MentorInit ==
    /\ mtSeeker \in MentorSeekers
    /\ mtCandidate \in MentorCandidates
    /\ mtContext \in Contexts
    /\ mtResult = NoResult

MentorScore ==
    /\ mtResult = NoResult
    /\ \E resp \in MentorResponses :
        mtResult' =
            [ame |-> AME_calculateMentorshipFit(mtSeeker, mtCandidate),
             ime |-> IME_calculateMentorshipFit(
                         [userProfile |-> mtSeeker, context |-> mtContext], mtCandidate),
             route |-> Route_criterionScore("mentorship_fit",
                         RouteStudent(T_JohnDoe, D_ComputerScience, mtSeeker.careerInterests,
                                      <<K_Java>>, L_BostonMA,
                                      mtSeeker.isSeekingMentorship, T_bio_student),
                         [mockAlumni[1] EXCEPT
                             !.isAvailableForMentoring = mtCandidate.isMentor],
                         resp)]
    /\ UNCHANGED <<mtSeeker, mtCandidate, mtContext, geoVars, skillVars, rankVars, moreVars>>

(***************************************************************************)
(* The profiles that are ranked.  a1 and a2 differ in their id only; a3    *)
(* has little in common with the seekers; s3 and the third student of the  *)
(* route have no skills property.                                          *)
(***************************************************************************)
Seekers ==
    {Student("s1", D_ComputerScience, <<K_Java, K_Python>>, <<T_Software>>, TRUE,
             L_BostonMA),
     Alumni("s2", D_History, <<K_Leadership>>, T_Accountant, T_Banking, L_MiamiFlorida,
            1, FALSE, <<>>),
     [Student("s3", D_ComputerScience, <<>>, <<T_Software>>, TRUE, L_BostonMA)
         EXCEPT !.missing = {"skills"}]}

Candidates ==
    {Alumni("a1", D_ComputerScience, <<K_Python, K_AWS>>, T_SeniorSoftwareEngineer,
            T_Technology, L_BostonMA, 10, TRUE, <<T_SoftwareEngineering>>),
     Alumni("a2", D_ComputerScience, <<K_Python, K_AWS>>, T_SeniorSoftwareEngineer,
            T_Technology, L_BostonMA, 10, TRUE, <<T_SoftwareEngineering>>),
     Alumni("a3", D_History, <<>>, T_Accountant, T_Banking, L_MiamiFlorida,
            1, FALSE, <<>>)}

RouteStudents ==
    {RouteStudent(T_JohnDoe, D_ComputerScience, <<T_Software>>, <<K_Python>>,
                  L_BostonMA, TRUE, T_bio_student),
     RouteStudent(<<>>, D_ComputerScience, <<T_Software>>, <<K_Python>>,
                  L_BostonMA, TRUE, T_bio_student),
     [RouteStudent(T_JohnDoe, D_ComputerScience, <<T_Software>>, <<>>,
                   L_BostonMA, TRUE, T_bio_student) EXCEPT !.missing = {"skills"}]}

SeekerOf(id) == CHOOSE s \in Seekers : s.id = id
CandidateOf(id) == CHOOSE a \in Candidates : a.id = id

(***************************************************************************)
(* The embedding provider.  What it returns for the text of a profile is   *)
(* a property of the world, given here by the profile's id; whether a      *)
(* request fails is decided call by call.  Only the leading entries of a   *)
(* returned vector are non-zero.                                           *)
(***************************************************************************)
ProviderEmbedding(id) ==
    IF id \in {"s1", "a1", "a2"} THEN RemoteVector(<<3, 4>>)
    ELSE IF id = "s2" THEN RemoteVector(<<4, 3>>)
    ELSE RemoteVector(<<-3, -4>>)

\* the entry of a Map kept as a set of [key, vector] records
Has(map, key) == \E e \in map : e.key = key
Get(map, key) == (CHOOSE e \in map : e.key = key).vector
Set(map, key, vector) ==
    {e \in map : e.key # key} \cup {[key |-> key, vector |-> vector]}

RECURSIVE SumWeighted(_, _, _)
SumWeighted(scores, criteria, i) ==
    IF i = 0 THEN Zero
    ELSE Plus(SumWeighted(scores, criteria, i - 1), Times(scores[i], criteria[i].weight))

RECURSIVE SumWeights(_, _)
SumWeights(criteria, i) ==
    IF i = 0 THEN Zero ELSE Plus(SumWeights(criteria, i - 1), criteria[i].weight)

\* matches.sort((a, b) => b.score - a.score): a stable sort, descending
RECURSIVE InsertByScore(_, _)
InsertByScore(sorted, m) ==
    IF sorted = <<>> THEN <<m>>
    ELSE IF Gt(m.score, Head(sorted).score) THEN <<m>> \o sorted
    ELSE <<Head(sorted)>> \o InsertByScore(Tail(sorted), m)

RECURSIVE SortByScore(_)
SortByScore(matches) ==
    IF matches = <<>> THEN <<>>
    ELSE InsertByScore(SortByScore(SubSeq(matches, 1, Len(matches) - 1)),
                       matches[Len(matches)])

slice(xs, limit) == SubSeq(xs, 1, IF limit < Len(xs) THEN limit ELSE Len(xs))

\* An optional argument is either not given or given with a value.
Undefined == [given |-> FALSE]
Given(value) == [given |-> TRUE, value |-> value]

DefaultLimit == 10
LimitOf(req) == IF req.limit.given THEN req.limit.value ELSE DefaultLimit

(***************************************************************************)
(* AlumniMatchingEngine.findMatches                                        *)
(***************************************************************************)

AlumniKey(id) == [alumni |-> id]
TextKey(text) == [text |-> text]

loadMockEmbeddings ==
    {[key |-> TextKey(profile), vector |-> getMockEmbedding(profile)] :
        profile \in {<<"c","o","m","p","u","t","e","r"," ","s","c","i","e","n","c","e"," ","s","o","f","t","w","a","r","e"," ","e","n","g","i","n","e","e","r">>, <<"b","u","s","i","n","e","s","s"," ","m","a","r","k","e","t","i","n","g"," ","m","a","n","a","g","e","r">>,
                     <<"e","n","g","i","n","e","e","r","i","n","g"," ","p","r","o","j","e","c","t"," ","m","a","n","a","g","e","r">>, <<"d","a","t","a"," ","s","c","i","e","n","c","e"," ","a","n","a","l","y","s","t">>}}

AME_getDefaultCriteria ==
    << [type |-> "career_similarity", weight |-> R(3, 10)],
       [type |-> "skill_complement", weight |-> R(25, 100)],
       [type |-> "mentorship_fit", weight |-> R(25, 100)],
       [type |-> "geographic_proximity", weight |-> R(2, 10)] >>

AME_createProfileText(profile) ==
    LET parts ==
            <<profile.department, join(Map(profile.skills, LAMBDA sk : sk.name), <<" ">>)>>
            \o (IF IsStudent(profile) THEN <<join(profile.careerInterests, <<" ">>)>>
                ELSE <<>>)
            \o (IF IsAlumni(profile) THEN <<profile.currentPosition, profile.industry>>
                ELSE <<>>)
    IN  join(Filter(parts, LAMBDA part : part # <<>>), <<" ">>)

\* generateProfileEmbedding without its catch block: the provider's error
\* leaves the function.
AME_generateProfileEmbedding_NoCatch(profile, key, fails) ==
    IF IsMissing(profile, "skills") THEN getMockEmbedding(s_fallback)
    ELSE IF key = "demo-key" THEN getMockEmbedding(AME_createProfileText(profile))
    ELSE IF fails THEN TypeError
    ELSE ProviderEmbedding(profile.id)

\* key is process.env.NEXT_PUBLIC_OPENAI_API_KEY; fails says whether the
\* provider's req fails.  A profile without skills makes createProfileText
\* throw inside the try block.
AME_generateProfileEmbedding(profile, key, fails) ==
    IF IsMissing(profile, "skills") THEN getMockEmbedding(s_fallback)
    ELSE IF key = "demo-key" THEN getMockEmbedding(AME_createProfileText(profile))
    ELSE IF fails THEN getMockEmbedding(s_fallback)
    ELSE ProviderEmbedding(profile.id)

AME_criterionScore(type, seeker, alumni) ==
    IF type = "career_similarity" THEN AME_calculateCareerSimilarity(seeker, alumni)
    ELSE IF type = "skill_complement" THEN AME_calculateSkillComplement(seeker, alumni)
    ELSE IF type = "geographic_proximity"
         THEN AME_calculateGeographicProximity(seeker, alumni)
    ELSE IF type = "mentorship_fit" THEN AME_calculateMentorshipFit(seeker, alumni)
    ELSE Zero

\* The criterion scores and the mock embeddings of the profiles that are
\* ranked are computed once and then looked up.
CriterionTypes ==
    {"career_similarity", "skill_complement", "geographic_proximity", "mentorship_fit"}

AME_scoreTable ==
    {[type |-> t, seeker |-> s.id, alumni |-> a.id,
      score |-> AME_criterionScore(t, s, a)] :
        t \in CriterionTypes, s \in Seekers, a \in Candidates}

AME_scoreOf(type, seeker, alumni) ==
    (CHOOSE e \in AME_scoreTable :
         e.type = type /\ e.seeker = seeker.id /\ e.alumni = alumni.id).score

AME_embeddingTable ==
    {[id |-> p.id, vector |-> AME_generateProfileEmbedding(p, "demo-key", FALSE)] :
        p \in Seekers \cup Candidates}

AME_embeddingOf(profile, key, fails) ==
    IF key = "demo-key"
    THEN (CHOOSE e \in AME_embeddingTable : e.id = profile.id).vector
    ELSE AME_generateProfileEmbedding(profile, key, fails)

AME_cosineTable ==
    LET known == {e.vector : e \in AME_embeddingTable} \cup {getMockEmbedding(s_fallback)}
    IN  {[a |-> a, b |-> b, cosine |-> AME_calculateCosineSimilarity(a, b)] :
            a \in known, b \in known}

AME_cosineOf(a, b) ==
    With({e \in AME_cosineTable : e.a = a /\ e.b = b}, LAMBDA known :
        IF known = {} THEN AME_calculateCosineSimilarity(a, b)
        ELSE (CHOOSE e \in known : TRUE).cosine)

\* One candidate: the weighted criteria, then the candidate's embedding (from
\* this.embeddings, or generated and stored), then the blend.  An exception of
\* a criterion or of generateProfileEmbedding leaves calculateMatch.
AME_calculateMatch(seeker, alumni, criteria, seekerEmbedding, cache, key, fails) ==
    With(Map(criteria, LAMBDA c : AME_scoreOf(c.type, seeker, alumni)), LAMBDA scores :
    With(IF Has(cache, AlumniKey(alumni.id)) THEN Get(cache, AlumniKey(alumni.id))
         ELSE AME_embeddingOf(alumni, key, fails), LAMBDA alumniEmbedding :
    IF Some(scores, Throws) \/ Throws(alumniEmbedding)
    THEN [thrown |-> TRUE, id |-> alumni.id, score |-> NaN, semantic |-> NaN,
          cache |-> cache]
    ELSE
    With(AME_cosineOf(seekerEmbedding, alumniEmbedding), LAMBDA semanticSimilarity :
    With(SumWeights(criteria, Len(criteria)), LAMBDA totalWeight :
        LET totalScore == SumWeighted(scores, criteria, Len(criteria))
            finalScore ==
                IF Gt(totalWeight, Zero)
                THEN Plus(Times(Over(totalScore, totalWeight), R(7, 10)),
                          Times(semanticSimilarity, R(3, 10)))
                ELSE semanticSimilarity
        IN  [thrown |-> FALSE, id |-> alumni.id, score |-> finalScore,
             semantic |-> semanticSimilarity,
             cache |-> Set(cache, AlumniKey(alumni.id), alumniEmbedding)]))))

\* The loop of findMatches over availableAlumni[i..]; failing is the set of
\* the provider requests that fail (0 is the seeker's, i the i-th candidate's).
RECURSIVE AME_matchAll(_, _, _, _, _, _, _, _)
AME_matchAll(seeker, pool, i, criteria, seekerEmbedding, cache, key, failing) ==
    IF i > Len(pool) THEN [thrown |-> FALSE, scored |-> <<>>, cache |-> cache]
    ELSE With(AME_calculateMatch(seeker, pool[i], criteria, seekerEmbedding,
                                 cache, key, i \in failing), LAMBDA m :
             IF m.thrown THEN [thrown |-> TRUE, scored |-> <<>>, cache |-> cache]
             ELSE With(AME_matchAll(seeker, pool, i + 1, criteria, seekerEmbedding,
                                    m.cache, key, failing), LAMBDA rest :
                      [thrown |-> rest.thrown,
                       scored |-> <<[id |-> m.id, score |-> m.score,
                                     semantic |-> m.semantic]>> \o rest.scored,
                       cache |-> rest.cache]))

AsMatch(s) == [id |-> s.id, score |-> s.score]

\* The outcome of findMatches apart from the random scores of the fallback:
\* status "ok" with the ranked matches, or status "fallback".
AME_findMatches(req, cache, key) ==
    LET criteria ==
            IF req.criteria.given THEN req.criteria.value
            ELSE AME_getDefaultCriteria
    IN  With(SeekerOf(req.seeker), LAMBDA profile :
        With(AME_embeddingOf(profile, key, 0 \in req.failing), LAMBDA profileEmbedding :
        IF Throws(profileEmbedding)
        THEN [status |-> "fallback", matches |-> <<>>, scored |-> <<>>, cache |-> cache]
        ELSE
        With(AME_matchAll(profile, Map(req.pool, CandidateOf), 1, criteria,
                          profileEmbedding, cache, key, req.failing), LAMBDA all :
            IF all.thrown
            THEN [status |-> "fallback", matches |-> <<>>, scored |-> <<>>,
                  cache |-> all.cache]
            ELSE [status |-> "ok",
                  matches |->
                      slice(SortByScore(
                                Map(Filter(all.scored, LAMBDA m : Gt(m.score, R(3, 10))),
                                    AsMatch)),
                            LimitOf(req)),
                  scored |-> all.scored, cache |-> all.cache])))

\* 0.5 + Math.random() * 0.3
FallbackScores == {R(50, 100), R(79, 100)}

FallbackReasons == <<"Profile compatibility", "Shared academic background">>

\* the fallback taken from the end of the pool
AME_getFallbackMatches_Last(alumni, limit, random) ==
    [i \in 1..Len(slice(alumni, limit)) |->
        [id |-> alumni[Len(alumni) - Len(slice(alumni, limit)) + i], score |-> random[i],
         reasons |-> FallbackReasons]]

AME_getFallbackMatches(alumni, limit, random) ==
    [i \in 1..Len(slice(alumni, limit)) |->
        [id |-> alumni[i], score |-> random[i], reasons |-> FallbackReasons]]

(***************************************************************************)
(* IntelligentMatchingEngine.findBestMatches                               *)
(***************************************************************************)
\* The key of vectorCache is the id and lastActive.  A profile without
\* lastActive is keyed by the current time, an entry no later call reads, so
\* that entry is left out of the cache.
HasLastActive(profile) == profile.lastActive # 0
VectorKey(profile) == [id |-> profile.id, lastActive |-> profile.lastActive]

\* createProfileText reads profile.skills.length
IME_generateProfileVector(profile, cache, fails) ==
    IF HasLastActive(profile) /\ Has(cache, VectorKey(profile))
    THEN [vector |-> Get(cache, VectorKey(profile)), cache |-> cache]
    ELSE IF IsMissing(profile, "skills") \/ fails
         THEN [vector |-> ZeroVector, cache |-> cache]
    ELSE [vector |-> ProviderEmbedding(profile.id),
          cache |-> IF HasLastActive(profile)
                    THEN Set(cache, VectorKey(profile), ProviderEmbedding(profile.id))
                    ELSE cache]

\* The scores of the profiles that are ranked are computed once and then
\* looked up.
IME_pairScores(context, candidateProfile) ==
    [skill |-> IME_calculateSkillComplementarity(context.userProfile, candidateProfile),
     geo |-> IME_calculateGeographicScore(context.userProfile, candidateProfile),
     mentorship |-> IME_calculateMentorshipFit(context, candidateProfile)]

IME_scoreTable ==
    {[context |-> c, user |-> s.id, candidate |-> a.id,
      scores |-> IME_pairScores([userProfile |-> s, context |-> c], a)] :
        c \in Contexts, s \in Seekers, a \in Candidates}

IME_scoresOf(context, candidateProfile) ==
    (CHOOSE e \in IME_scoreTable :
         /\ e.context = context.context
         /\ e.user = context.userProfile.id
         /\ e.candidate = candidateProfile.id).scores

IME_calculateMatchScore(context, userVector, candidateVector, candidateProfile, llm) ==
    With(IME_calculateCosineSimilarity(userVector, candidateVector),
         LAMBDA cosineSimilarity :
    With(IME_scoresOf(context, candidateProfile), LAMBDA scores :
        LET careerScore == IME_calculateCareerSimilarity(llm)
            weighted ==
                Plus(Plus(Plus(Times(careerScore, R(4, 10)),
                               Times(scores.skill, R(25, 100))),
                          Times(scores.geo, R(15, 100))),
                     Times(scores.mentorship, R(2, 10)))
            withBonus == Plus(weighted, Times(cosineSimilarity, R(1, 10)))
        IN  IF Throws(scores.skill)
            THEN [thrown |-> TRUE, id |-> candidateProfile.id, score |-> NaN,
                  semantic |-> cosineSimilarity]
            ELSE [thrown |-> FALSE, id |-> candidateProfile.id,
                  score |->
                      MathMin(Plus(withBonus,
                                   IF context.context = "mentorship"
                                      /\ candidateProfile.isMentor
                                   THEN R(2, 10) ELSE Zero),
                              One),
                  semantic |-> cosineSimilarity]))

RECURSIVE IME_matchAll(_, _, _, _, _, _, _)
IME_matchAll(context, candidates, i, userVector, cache, failing, llm) ==
    IF i > Len(candidates) THEN [thrown |-> FALSE, scored |-> <<>>, cache |-> cache]
    ELSE With(IME_generateProfileVector(candidates[i], cache, i \in failing), LAMBDA v :
         With(IME_calculateMatchScore(context, userVector, v.vector,
                                      candidates[i], llm), LAMBDA m :
             IF m.thrown THEN [thrown |-> TRUE, scored |-> <<>>, cache |-> v.cache]
             ELSE With(IME_matchAll(context, candidates, i + 1, userVector, v.cache,
                                    failing, llm), LAMBDA rest :
                      [thrown |-> rest.thrown,
                       scored |-> <<[id |-> m.id, score |-> m.score,
                                     semantic |-> m.semantic]>> \o rest.scored,
                       cache |-> rest.cache])))

\* status "ok" with the ranked matches, or status "caught": the catch block
\* returns the empty list.
IME_findBestMatches(req, cache) ==
    With([userProfile |-> SeekerOf(req.seeker), context |-> req.context], LAMBDA context :
    With(IME_generateProfileVector(context.userProfile, cache, 0 \in req.failing),
         LAMBDA user :
    With(IME_matchAll(context, Map(req.pool, CandidateOf), 1, user.vector,
                      user.cache, req.failing, req.llm), LAMBDA all :
        IF all.thrown
        THEN [status |-> "caught", matches |-> <<>>, scored |-> <<>>,
              cache |-> all.cache]
        ELSE [status |-> "ok",
              matches |->
                  slice(SortByScore(
                            Map(Filter(all.scored, LAMBDA m : Gt(m.score, R(3, 10))),
                                AsMatch)),
                        LimitOf(req)),
              scored |-> all.scored, cache |-> all.cache])))

(***************************************************************************)
(* POST /api/ai/match                                                      *)
(***************************************************************************)
Route_defaultCriteria ==
    << [type |-> "career_similarity", weight |-> R(3, 10)],
       [type |-> "skill_complement", weight |-> R(25, 100)],
       [type |-> "mentorship_fit", weight |-> R(25, 100)],
       [type |-> "geographic_proximity", weight |-> R(2, 10)] >>

\* What the provider does for the two texts of one similarity req about
\* the i-th of mockAlumni: the student's text embeds as studentVector.
RouteAlumniVector(i) ==
    IF i \in {1, 3} THEN RemoteVector(<<3, 4>>)
    ELSE IF i \in {2, 5} THEN RemoteVector(<<4, 3>>)
    ELSE RemoteVector(<<-4, -3>>)

RouteResponse(req, i) ==
    IF i \in req.failing THEN ProviderFails
    ELSE ProviderReturns(req.studentVector, RouteAlumniVector(i))

Route_calculateMatchScore(studentProfile, alumniProfile, criteria, resp) ==
    With(Map(criteria, LAMBDA c :
                 Route_criterionScore(c.type, studentProfile, alumniProfile, resp)),
         LAMBDA scores :
        IF Some(scores, Throws) THEN TypeError
        ELSE MathMin(SumWeighted(scores, criteria, Len(criteria)), One))

\* generateMatchReasons reads studentProfile.skills when a skill_complement
\* criterion is present
Route_reasonsThrow(studentProfile, criteria) ==
    /\ IsMissing(studentProfile, "skills")
    /\ Some(criteria, LAMBDA c : c.type = "skill_complement")

Route_careerSemantic(studentProfile, alumniProfile, resp) ==
    Route_calculateSemanticSimilarity(
        studentProfile.major \o <<" ">> \o join(studentProfile.careerInterests, <<" ">>),
        alumniProfile.currentPosition \o <<" ">> \o alumniProfile.industry, resp)

\* status 400 (validation), 500 (the catch block) or 200 with the matches
POST(req) ==
    LET studentProfile == req.seeker
        criteria ==
            IF req.criteria.given THEN req.criteria.value
            ELSE Route_defaultCriteria
    IN  IF studentProfile.name = <<>>
        THEN [status |-> "400", matches |-> <<>>, scored |-> <<>>]
        ELSE With([i \in 1..Len(mockAlumni) |->
                      With([alumni |-> mockAlumni[i], resp |-> RouteResponse(req, i)],
                           LAMBDA call :
                          [id |-> call.alumni.id,
                           score |-> Route_calculateMatchScore(
                                         studentProfile, call.alumni, criteria, call.resp),
                           semantic |-> Route_careerSemantic(
                                            studentProfile, call.alumni, call.resp)])],
                  LAMBDA scored :
                 IF \/ Some(scored, LAMBDA m : Throws(m.score))
                    \/ Route_reasonsThrow(studentProfile, criteria)
                 THEN [status |-> "500", matches |-> <<>>, scored |-> <<>>]
                 ELSE [status |-> "ok",
                       matches |-> slice(SortByScore(Map(scored, AsMatch)), LimitOf(req)),
                       scored |-> scored])

(***************************************************************************)
(* The ranking machine: one engine, its caches, and one ranking call at a  *)
(* time.  A call is one step: the whole of findMatches, findBestMatches or *)
(* POST.  The response keeps, beside the returned matches, what each       *)
(* candidate scored before the threshold and what the same call returns    *)
(* when no provider request fails.                                         *)
(***************************************************************************)
MaxPool == 2

IsInjective(q) == \A i, j \in 1..Len(q) : q[i] = q[j] => i = j
Pools == {q \in SeqsUpTo({a.id : a \in Candidates}, MaxPool) : IsInjective(q)}
SeekerIds == {s.id : s \in Seekers}

StudentVectors == {RemoteVector(<<3, 4>>), RemoteVector(<<-3, -4>>)}

CriteriaInputs ==
    {Undefined,
     Given(<<>>),
     Given(<<[type |-> "career_similarity", weight |-> Zero]>>),
     Given(<<[type |-> "career_similarity", weight |-> One]>>)}

LimitInputs == {Undefined, Given(1)}

LLMResponses == {LLMFails, LLMGarbage, LLMAnswers(R(9, 10)), LLMAnswers(Zero)}

\* At most one of the provider's requests of a call fails.
Failing(slots) == {{}} \cup {{slot} : slot \in slots}

NoFailure(req) == [req EXCEPT !.failing = {}]

\* what is kept of the same call without a failure
Baseline(out) == [status |-> out.status, scored |-> out.scored]

RankIdle ==
    /\ engine = "AME"
    /\ apiKey = "demo-key"
    /\ embeddings = {}
    /\ vectorCache = {}
    /\ pc = "idle"
    /\ request = NoResult
    /\ response = NoResult

\* The engines after construction.  The environment variable of the
\* AlumniMatchingEngine is "demo-key" or something else.
RankInit ==
    /\ engine \in {"AME", "IME", "ROUTE"}
    /\ apiKey \in {"demo-key", "live"}
    /\ (engine # "AME" => apiKey = "live")
    /\ embeddings = IF engine = "AME" THEN loadMockEmbeddings ELSE {}
    /\ vectorCache = {}
    /\ pc = "idle"
    /\ request = NoResult
    /\ response = NoResult

AME_Call ==
    /\ pc = "idle"
    /\ engine = "AME"
    /\ \E seeker \in SeekerIds, pool \in Pools, criteria \in CriteriaInputs,
          limit \in LimitInputs :
        \E failing \in (IF apiKey = "demo-key" THEN {{}} ELSE Failing(0..Len(pool))) :
            LET req == [seeker |-> seeker, pool |-> pool, criteria |-> criteria,
                        limit |-> limit, failing |-> failing]
            IN  \E out \in {AME_findMatches(req, embeddings, apiKey)} :
                \E base \in {IF failing = {} THEN out
                             ELSE AME_findMatches(NoFailure(req), embeddings, apiKey)} :
                /\ request' = req
                /\ embeddings' = out.cache
                /\ IF out.status = "fallback"
                   THEN \E random \in [1..Len(slice(pool, LimitOf(req))) -> FallbackScores] :
                           response' =
                               [status |-> "fallback",
                                matches |-> AME_getFallbackMatches(pool, LimitOf(req), random),
                                scored |-> <<>>, baseline |-> Baseline(base)]
                   ELSE response' =
                           [status |-> "ok", matches |-> out.matches,
                            scored |-> out.scored, baseline |-> Baseline(base)]
    /\ pc' = "returned"
    /\ UNCHANGED <<engine, apiKey, vectorCache, geoVars, skillVars, mentorVars, moreVars>>

IME_Call ==
    /\ pc = "idle"
    /\ engine = "IME"
    /\ \E seeker \in SeekerIds, pool \in Pools, context \in {"mentorship", "networking"},
          limit \in LimitInputs, llm \in LLMResponses :
        \E failing \in Failing(0..Len(pool)) :
            LET req == [seeker |-> seeker, pool |-> pool, context |-> context,
                        limit |-> limit, failing |-> failing, llm |-> llm]
            IN  \E out \in {IME_findBestMatches(req, vectorCache)} :
                \E base \in {IF failing = {} THEN out
                             ELSE IME_findBestMatches(NoFailure(req), vectorCache)} :
                /\ request' = req
                /\ vectorCache' = out.cache
                /\ response' =
                       [status |-> out.status, matches |-> out.matches,
                        scored |-> out.scored, baseline |-> Baseline(base)]
    /\ pc' = "returned"
    /\ UNCHANGED <<engine, apiKey, embeddings, geoVars, skillVars, mentorVars, moreVars>>

Route_Call ==
    /\ pc = "idle"
    /\ engine = "ROUTE"
    /\ \E seeker \in RouteStudents, studentVector \in StudentVectors,
          criteria \in CriteriaInputs, limit \in LimitInputs :
        \E failing \in Failing(1..Len(mockAlumni)) :
            LET req == [seeker |-> seeker, pool |-> Map(mockAlumni, LAMBDA m : m.id),
                        studentVector |-> studentVector, criteria |-> criteria,
                        limit |-> limit, failing |-> failing]
            IN  \E out \in {POST(req)} :
                \E base \in {IF failing = {} THEN out ELSE POST(NoFailure(req))} :
                /\ request' = req
                /\ response' =
                       [status |-> out.status, matches |-> out.matches,
                        scored |-> out.scored, baseline |-> Baseline(base)]
    /\ pc' = "returned"
    /\ UNCHANGED <<engine, apiKey, embeddings, vectorCache, geoVars, skillVars, mentorVars, moreVars>>

\* The caller has the response; the engine and its caches stay.
Return ==
    /\ pc = "returned"
    /\ pc' = "idle"
    /\ request' = NoResult
    /\ response' = NoResult
    /\ UNCHANGED <<engine, apiKey, embeddings, vectorCache, geoVars, skillVars, mentorVars, moreVars>>

(***************************************************************************)
(* The embedding bench: getMockEmbedding is called on some texts, by one   *)
(* or the other of two engine instances, and every call is recorded.  The  *)
(* first instance is the module's alumniMatcher, the second one is         *)
(* constructed later.                                                      *)
(***************************************************************************)
MaxCalls == 3

EngineInstances == {"alumniMatcher", "second"}

EmbedTexts ==
    {<<>>, s_fallback, T_Software,
     AME_createProfileText(Student("s1", D_ComputerScience, <<K_Java, K_Python>>,
                                   <<T_Software>>, TRUE, L_BostonMA))}

EmbedIdle == emCalls = <<>>

GetMockEmbedding ==
    /\ Len(emCalls) < MaxCalls
    /\ \E instance \in EngineInstances, text \in EmbedTexts :
        emCalls' = Append(emCalls, [instance |-> instance, text |-> text,
                                    embedding |-> getMockEmbedding(text)])
    /\ UNCHANGED <<geoVars, skillVars, mentorVars, rankVars, frameVars, cacheVars,
                   subVars, weightVars, cosVars,
                   lateVars>>

(***************************************************************************)
(* The caller's profiles.  findMatches is given the profile objects of the *)
(* caller; what it does to an object is seen by the caller afterwards.     *)
(* The only write is in getTopSkills, which sorts alumni.skills in place   *)
(* by level: localeCompare orders the levels alphabetically.               *)
(***************************************************************************)
LevelOrder == <<"Advanced", "Beginner", "Expert", "Intermediate">>
LevelRank(level) == CHOOSE k \in 1..Len(LevelOrder) : LevelOrder[k] = level

\* skills.sort((a, b) => b.level.localeCompare(a.level)): stable, descending
RECURSIVE InsertByLevel(_, _)
InsertByLevel(sorted, sk) ==
    IF sorted = <<>> THEN <<sk>>
    ELSE IF LevelRank(sk.level) > LevelRank(Head(sorted).level) THEN <<sk>> \o sorted
    ELSE <<Head(sorted)>> \o InsertByLevel(Tail(sorted), sk)

RECURSIVE SortByLevel(_)
SortByLevel(skills) ==
    IF skills = <<>> THEN <<>>
    ELSE InsertByLevel(SortByLevel(SubSeq(skills, 1, Len(skills) - 1)),
                       skills[Len(skills)])

\* the array after the call, and the names the call returns
AME_getTopSkills(skills) ==
    [skills |-> SortByLevel(skills),
     top |-> Map(slice(SortByLevel(skills), 3), LAMBDA sk : sk.name)]

\* The alumni object after calculateMatch: the case 'skill_complement' calls
\* getTopSkills(alumni.skills) when the score is above 0.6.
AME_alumniAfterMatch(seeker, alumni, criteria) ==
    IF Some(criteria, LAMBDA c :
               /\ c.type = "skill_complement"
               /\ ~Throws(AME_calculateSkillComplement(seeker, alumni))
               /\ Gt(AME_calculateSkillComplement(seeker, alumni), R(6, 10)))
    THEN [alumni EXCEPT !.skills = AME_getTopSkills(alumni.skills).skills]
    ELSE alumni

SkillAt(name, level) == [name |-> name, level |-> level]

FrameSkills == {SkillAt(name, level) : name \in {K_Python, K_AWS},
                                       level \in {"Advanced", "Expert"}}

FrameAlumni(id) ==
    {[Alumni(id, D_ComputerScience, <<>>, T_SeniorSoftwareEngineer, T_Technology,
             L_BostonMA, 10, TRUE, <<>>) EXCEPT !.skills = skills] :
        skills \in SeqsUpTo(FrameSkills, 2)}

FramePools ==
    {<<a>> : a \in FrameAlumni("a1")}
    \cup {<<a, b>> : a \in FrameAlumni("a1"), b \in FrameAlumni("a2")}

FrameIdle ==
    /\ frSeeker = NoResult
    /\ frPool = <<>>
    /\ frCriteria = Undefined
    /\ frBefore = NoResult

FrameInit ==
    /\ frSeeker = Student("s1", D_ComputerScience, <<K_Python, K_AWS>>, <<T_Software>>,
                          TRUE, L_BostonMA)
    /\ frPool \in FramePools
    /\ frCriteria \in {Undefined,
                       Given(<<[type |-> "career_similarity", weight |-> One]>>)}
    /\ frBefore = NoResult

\* findMatches(frSeeker, frPool, frCriteria): what the call leaves in the
\* caller's objects.  The seeker is only read.
AME_FindMatches_Profiles ==
    /\ frBefore = NoResult
    /\ frBefore' = [seeker |-> frSeeker, pool |-> frPool]
    /\ frPool' = Map(frPool, LAMBDA alumni :
                     AME_alumniAfterMatch(frSeeker, alumni,
                         IF frCriteria.given THEN frCriteria.value
                         ELSE AME_getDefaultCriteria))
    /\ UNCHANGED <<frSeeker, frCriteria, geoVars, skillVars, mentorVars, rankVars,
                   embedVars, cacheVars, subVars, weightVars, cosVars,
                   lateVars>>

(***************************************************************************)
(* The vector caches over several ranking calls.  A profile of the caller  *)
(* has an id, the lastActive marker (0 when the property is absent, as on  *)
(* a StudentProfile) and a version that stands for its current text; the   *)
(* provider's embedding is a function of the id and the text.  Each embed  *)
(* request of a call is logged: whether it was answered from the cache,    *)
(* whether the provider was called and succeeded, which vector was used    *)
(* and whether it was stored.  The AlumniMatchingEngine runs with a live   *)
(* key.                                                                    *)
(***************************************************************************)
MaxRankCalls == 2
MaxVersion == 2
MaxClock == 1

CacheIds == {"s1", "a1", "a2"}
CacheAlumniIds == {"a1", "a2"}

CacheProfile(id, profiles) ==
    [id |-> id, lastActive |-> profiles[id].lastActive, version |-> profiles[id].version]

ProviderVectorOf(profile) ==
    RemoteVector(<<IF profile.id = "s1" THEN 1 ELSE IF profile.id = "a1" THEN 2 ELSE 3,
                   profile.version>>)

EmbedEntry(profile, hit, ok, vector, stored) ==
    [id |-> profile.id, lastActive |-> profile.lastActive, version |-> profile.version,
     hit |-> hit, provider |-> ~hit, ok |-> ok, vector |-> vector, stored |-> stored]

\* generateProfileEmbedding(profile) with a live key: one provider request
Cache_AME_generateProfileEmbedding(profile, fails) ==
    IF fails THEN getMockEmbedding(s_fallback) ELSE ProviderVectorOf(profile)

\* the seeker's embedding in findMatches: never looked up, never stored
Cache_AME_seeker(profile, fails) ==
    EmbedEntry(profile, FALSE, ~fails,
               Cache_AME_generateProfileEmbedding(profile, fails), FALSE)

Cache_AME_getAlumniEmbedding(alumni, cache, fails) ==
    IF Has(cache, AlumniKey(alumni.id))
    THEN [entry |-> EmbedEntry(alumni, TRUE, FALSE, Get(cache, AlumniKey(alumni.id)),
                               FALSE),
          cache |-> cache]
    ELSE [entry |-> EmbedEntry(alumni, FALSE, ~fails,
                               Cache_AME_generateProfileEmbedding(alumni, fails), TRUE),
          cache |-> Set(cache, AlumniKey(alumni.id),
                        Cache_AME_generateProfileEmbedding(alumni, fails))]

\* cacheKey = `${profile.id}_${profile.lastActive || Date.now()}`
Cache_IME_cacheKey(profile, now) ==
    IF profile.lastActive # 0 THEN [id |-> profile.id, lastActive |-> profile.lastActive]
    ELSE [id |-> profile.id, now |-> now]

Cache_IME_generateProfileVector(profile, cache, now, fails) ==
    IF Has(cache, Cache_IME_cacheKey(profile, now))
    THEN [entry |-> EmbedEntry(profile, TRUE, FALSE,
                               Get(cache, Cache_IME_cacheKey(profile, now)), FALSE),
          cache |-> cache]
    ELSE IF fails
    THEN [entry |-> EmbedEntry(profile, FALSE, FALSE, ZeroVector, FALSE), cache |-> cache]
    ELSE [entry |-> EmbedEntry(profile, FALSE, TRUE, ProviderVectorOf(profile), TRUE),
          cache |-> Set(cache, Cache_IME_cacheKey(profile, now),
                        ProviderVectorOf(profile))]

\* the embed requests of the loop over the candidates pool[i..]
RECURSIVE Cache_candidates(_, _, _, _, _, _)
Cache_candidates(eng, pool, i, cache, now, failing) ==
    IF i > Len(pool) THEN [log |-> <<>>, cache |-> cache]
    ELSE With(IF eng = "AME"
              THEN Cache_AME_getAlumniEmbedding(pool[i], cache, i \in failing)
              ELSE Cache_IME_generateProfileVector(pool[i], cache, now, i \in failing),
              LAMBDA one :
         With(Cache_candidates(eng, pool, i + 1, one.cache, now, failing), LAMBDA rest :
             [log |-> <<one.entry>> \o rest.log, cache |-> rest.cache]))

\* the embed requests of one ranking call: the seeker's, then the candidates'
Cache_rankingCall(eng, seeker, pool, cache, now, failing) ==
    With(IF eng = "AME"
         THEN [entry |-> Cache_AME_seeker(seeker, 0 \in failing), cache |-> cache]
         ELSE Cache_IME_generateProfileVector(seeker, cache, now, 0 \in failing),
         LAMBDA first :
    With(Cache_candidates(eng, pool, 1, first.cache, now, failing), LAMBDA rest :
        [log |-> <<first.entry>> \o rest.log, cache |-> rest.cache]))

CachePools == {q \in SeqsUpTo(CacheAlumniIds, 2) : IsInjective(q)}

CacheIdle ==
    /\ caEngine = "AME"
    /\ caProfiles = <<>>
    /\ caCache = {}
    /\ caClock = 0
    /\ caCalls = 0
    /\ caLog = <<>>

CacheInit ==
    /\ caEngine \in {"AME", "IME"}
    /\ caProfiles = [id \in CacheIds |->
                        [lastActive |-> IF id \in CacheAlumniIds THEN 1 ELSE 0,
                         version |-> 1]]
    /\ caCache = {}
    /\ caClock = 0
    /\ caCalls = 0
    /\ caLog = <<>>

\* findMatches / findBestMatches of the engine on the caller's profiles
Cache_Call ==
    /\ caCalls < MaxRankCalls
    /\ \E seeker \in CacheIds, pool \in CachePools :
        \E failing \in Failing(0..Len(pool)) :
            \E out \in {Cache_rankingCall(
                            caEngine, CacheProfile(seeker, caProfiles),
                            Map(pool, LAMBDA id : CacheProfile(id, caProfiles)),
                            caCache, caClock, failing)} :
                /\ caCache' = out.cache
                /\ caLog' = caLog \o out.log
    /\ caCalls' = caCalls + 1
    /\ UNCHANGED <<caEngine, caProfiles, caClock, geoVars, skillVars, mentorVars,
                   rankVars, embedVars, frameVars, subVars, weightVars, cosVars,
                   lateVars>>

\* An alumnus edits the profile: its text and its lastActive marker change.
Cache_UpdateProfile ==
    /\ \E id \in CacheAlumniIds :
        /\ caProfiles[id].version < MaxVersion
        /\ caProfiles' = [caProfiles EXCEPT ![id] =
                             [lastActive |-> @.lastActive + 1, version |-> @.version + 1]]
    /\ UNCHANGED <<caEngine, caCache, caClock, caCalls, caLog, geoVars, skillVars,
                   mentorVars, rankVars, embedVars, frameVars, subVars, weightVars, cosVars,
                   lateVars>>

\* Date.now() has moved on.
Cache_Tick ==
    /\ caClock < MaxClock
    /\ caClock' = caClock + 1
    /\ UNCHANGED <<caEngine, caProfiles, caCache, caCalls, caLog, geoVars, skillVars,
                   mentorVars, rankVars, embedVars, frameVars, subVars, weightVars, cosVars,
                   lateVars>>

(***************************************************************************)
(* The bench of the sub-score calculators: a seeker and a candidate are    *)
(* given, then every calculator that is a function of the two profiles     *)
(* scores the pair.  A candidate's skills list may hold a name several     *)
(* times; a seeker may have several interest tags that match.              *)
(***************************************************************************)
MaxCandidateSkills == 4

SubLocations == {L_BostonMA, L_MiamiFlorida, L_Empty}

SubSeekers ==
    {Student("s1", dept, skills, interests, TRUE, loc) :
        dept \in Departments,
        skills \in {<<>>, <<K_Leadership>>, <<K_Python>>},
        interests \in {<<>>, <<T_Software, T_Technology, T_Software, T_Technology>>},
        loc \in SubLocations}
    \cup
    {Alumni("s2", D_ComputerScience, <<K_Python>>, T_SoftwareEngineering, T_Technology,
            loc, ye, FALSE, <<>>) : loc \in SubLocations, ye \in {0, 5}}

SubCandidates ==
    {Alumni("a1", D_ComputerScience, skills, T_SeniorSoftwareEngineer, T_Technology,
            loc, 10, isMentor, <<T_SoftwareEngineering>>) :
        skills \in SeqsUpTo({K_Leadership, K_Python}, MaxCandidateSkills),
        loc \in SubLocations, isMentor \in BOOLEAN}

SkillNamesOf(profile) == Map(profile.skills, LAMBDA sk : sk.name)

SubScores(seeker, candidate) ==
    [ame |->
        [career |-> AME_calculateCareerSimilarity(seeker, candidate),
         skill |-> AME_calculateSkillComplement(seeker, candidate),
         geo |-> AME_calculateGeographicProximity(seeker, candidate),
         mentorship |-> AME_calculateMentorshipFit(seeker, candidate)],
     ime |->
        [skill |-> IME_calculateSkillComplementarity(seeker, candidate),
         geo |-> IME_calculateGeographicScore(seeker, candidate),
         mentorship |-> IME_calculateMentorshipFit(
                            [userProfile |-> seeker, context |-> "mentorship"], candidate)],
     route |->
        [skill |-> Route_calculateSkillsMatch(SkillNamesOf(seeker), SkillNamesOf(candidate)),
         geo |-> Route_calculateGeographicProximity(
                     AME_extractLocation(seeker), candidate.workLocation)]]

SubIdle ==
    /\ suSeeker = NoResult
    /\ suCandidate = NoResult
    /\ suResult = NoResult

SubInit ==
    /\ suSeeker \in SubSeekers
    /\ suCandidate \in SubCandidates
    /\ suResult = NoResult

SubScore ==
    /\ suResult = NoResult
    /\ suResult' = SubScores(suSeeker, suCandidate)
    /\ UNCHANGED <<suSeeker, suCandidate, geoVars, skillVars, mentorVars, rankVars,
                   embedVars, frameVars, cacheVars, weightVars, cosVars,
                   lateVars>>

(***************************************************************************)
(* The bench of the weights: one ranking call of findMatches or of POST,   *)
(* and the same call with every criterion weight multiplied by one         *)
(* positive factor.  The factors are powers of two, which scale a double   *)
(* without rounding.                                                       *)
(***************************************************************************)
ScaleFactors == {R(2, 1), R(1, 2)}

Criterion(type, weight) == [type |-> type, weight |-> weight]

WeightCriteria ==
    {<<Criterion("career_similarity", R(30, 100)), Criterion("skill_complement", R(25, 100)),
       Criterion("geographic_proximity", R(25, 100)), Criterion("mentorship_fit", R(20, 100))>>,
     <<Criterion("skill_complement", One)>>,
     <<Criterion("skill_complement", R(1, 2)), Criterion("geographic_proximity", R(1, 2))>>,
     <<Criterion("geographic_proximity", R(2, 10))>>}

ScaleWeights(criteria, factor) ==
    [i \in 1..Len(criteria) |->
        [criteria[i] EXCEPT !.weight = Times(factor, criteria[i].weight)]]

ScaledRequest(req, factor) ==
    [req EXCEPT !.criteria = Given(ScaleWeights(req.criteria.value, factor))]

Ranked(out) == [status |-> out.status, matches |-> out.matches, scored |-> out.scored]

WeightIdle ==
    /\ wtEngine = "none"
    /\ wtRequest = NoResult
    /\ wtFactor = NoResult
    /\ wtBase = NoResult
    /\ wtScaled = NoResult

WeightInit ==
    /\ wtEngine \in {"AME", "ROUTE"}
    /\ wtRequest = NoResult
    /\ wtFactor = NoResult
    /\ wtBase = NoResult
    /\ wtScaled = NoResult

Weight_AME_Call ==
    /\ wtEngine = "AME"
    /\ wtRequest = NoResult
    /\ \E seeker \in SeekerIds, pool \in Pools, criteria \in WeightCriteria,
          factor \in ScaleFactors :
        LET req == [seeker |-> seeker, pool |-> pool, criteria |-> Given(criteria),
                    limit |-> Undefined, failing |-> {}]
        IN  /\ wtRequest' = req
            /\ wtFactor' = factor
            /\ wtBase' = Ranked(AME_findMatches(req, loadMockEmbeddings, "demo-key"))
            /\ wtScaled' = Ranked(AME_findMatches(ScaledRequest(req, factor),
                                                  loadMockEmbeddings, "demo-key"))
    /\ UNCHANGED <<wtEngine, geoVars, skillVars, mentorVars, rankVars, embedVars,
                   frameVars, cacheVars, subVars, cosVars,
                   lateVars>>

Weight_Route_Call ==
    /\ wtEngine = "ROUTE"
    /\ wtRequest = NoResult
    /\ \E seeker \in RouteStudents, studentVector \in StudentVectors,
          criteria \in WeightCriteria, factor \in ScaleFactors :
        LET req == [seeker |-> seeker, pool |-> Map(mockAlumni, LAMBDA m : m.id),
                    studentVector |-> studentVector, criteria |-> Given(criteria),
                    limit |-> Undefined, failing |-> {}]
        IN  /\ wtRequest' = req
            /\ wtFactor' = factor
            /\ wtBase' = Ranked(POST(req))
            /\ wtScaled' = Ranked(POST(ScaledRequest(req, factor)))
    /\ UNCHANGED <<wtEngine, geoVars, skillVars, mentorVars, rankVars, embedVars,
                   frameVars, cacheVars, subVars, cosVars,
                   lateVars>>

(***************************************************************************)
(* The bench of the cosine similarity                                      *)
(***************************************************************************)
\* The two vectors are given, then each of the three implementations is
\* applied to them, and calculateMatch blends the first one's value into a
\* final score.  The vectors are those of the provider, of one length.
CosVectors ==
    {ZeroVector, RemoteVector(<<3, 4>>), RemoteVector(<<4, 3>>), RemoteVector(<<-3, -4>>),
     RemoteVector(<<-4, -3>>), RemoteVector(<<5, 12>>), RemoteVector(<<1>>),
     RemoteVector(<<0, 1>>), RemoteVector(<<1, 1>>), RemoteVector(<<2, 0, 1>>)}

CosCriteria == <<[type |-> "career_similarity", weight |-> One]>>

CosScores(a, b) ==
    [ame |-> AME_calculateCosineSimilarity(a, b),
     ime |-> IME_calculateCosineSimilarity(a, b),
     route |-> Route_calculateSemanticSimilarity(T_Software, T_Technology,
                                                 ProviderReturns(a, b)),
     ameFinal |-> AME_calculateMatch(SeekerOf("s1"), CandidateOf("a1"), CosCriteria, a,
                                     {[key |-> AlumniKey("a1"), vector |-> b]},
                                     "live", FALSE).score]

CosIdle ==
    /\ coA = NoResult
    /\ coB = NoResult
    /\ coResult = NoResult

CosInit ==
    /\ coA \in CosVectors
    /\ coB \in CosVectors
    /\ coResult = NoResult

CosineSimilarity ==
    /\ coResult = NoResult
    /\ coResult' = CosScores(coA, coB)
    /\ UNCHANGED <<coA, coB, geoVars, skillVars, mentorVars, rankVars, embedVars,
                   frameVars, cacheVars, subVars, weightVars,
                   lateVars>>

(***************************************************************************)
(* The reasons of one scored candidate.  A reason is kept as the name of   *)
(* the template of its text.  calculateMatch pushes a reason and the       *)
(* criterion inside the loop over the criteria; calculateMatchScore pushes *)
(* reasons after each of its four sub-scores and after the context         *)
(* adjustment; generateMatchReasons derives its list and slices it.        *)
(***************************************************************************)
MaxCriteria == 5

AME_isNotable(type, score, alumni) ==
    IF type = "career_similarity" THEN Gt(score, R(7, 10))
    ELSE IF type = "skill_complement" THEN Gt(score, R(6, 10))
    ELSE IF type = "geographic_proximity" THEN Gt(score, R(8, 10))
    ELSE IF type = "mentorship_fit" THEN Gt(score, R(7, 10)) /\ alumni.isMentor
    ELSE FALSE

\* reasons and matchTypes of calculateMatch; scores[t] is the sub-score of type t
AME_reasonsOf(criteria, scores, alumni) ==
    LET notable == Filter(criteria, LAMBDA c : AME_isNotable(c.type, scores[c.type], alumni))
    IN  [scores |-> Map(criteria, LAMBDA c : [type |-> c.type, score |-> scores[c.type]]),
         reasons |-> Map(notable, LAMBDA c : c.type),
         derived |-> Map(notable, LAMBDA c : c.type),
         matchTypes |-> Map(notable, LAMBDA c : c.type)]

IME_matchTypeOf(careerScore, geoScore, mentorshipScore) ==
    IF Gt(mentorshipScore, R(8, 10)) THEN "mentorship_fit"
    ELSE IF Gt(geoScore, R(8, 10)) THEN "geographic"
    ELSE "career_similarity"

\* reasons and matchType of calculateMatchScore
IME_reasonsOf(context, candidateProfile, careerScore, scores) ==
    LET derived ==
            (IF Gt(careerScore, R(7, 10)) THEN <<"career_similarity">> ELSE <<>>)
            \o (IF Gt(scores.skill, R(6, 10)) THEN <<"skill_complement">> ELSE <<>>)
            \o (IF Gt(scores.geo, R(8, 10)) THEN <<"geographic_proximity">> ELSE <<>>)
            \o (IF Gt(scores.mentorship, R(8, 10)) THEN <<"mentorship_fit">> ELSE <<>>)
            \o (IF context.context = "mentorship" /\ candidateProfile.isMentor
                THEN <<"active_mentor">> ELSE <<>>)
    IN  [scores |-> << [type |-> "career_similarity", score |-> careerScore],
                       [type |-> "skill_complement", score |-> scores.skill],
                       [type |-> "geographic_proximity", score |-> scores.geo],
                       [type |-> "mentorship_fit", score |-> scores.mentorship] >>,
         reasons |-> derived,
         derived |-> derived,
         matchTypes |-> <<IME_matchTypeOf(careerScore, scores.geo, scores.mentorship)>>]

HasType(criteria, type) == Some(criteria, LAMBDA c : c.type = type)

Route_generateMatchReasons(studentProfile, alumniProfile, criteria, totalScore) ==
    LET hasCareerAlignment ==
            Some(studentProfile.careerInterests, LAMBDA interest :
                \/ includes(toLowerCase(alumniProfile.industry), toLowerCase(interest))
                \/ includes(toLowerCase(alumniProfile.currentPosition),
                            toLowerCase(interest)))
        matchingSkills ==
            Filter(studentProfile.skills, LAMBDA skill :
                Some(alumniProfile.skills, LAMBDA alumniSkill :
                    includes(toLowerCase(alumniSkill), toLowerCase(skill))))
        newSkills ==
            Filter(alumniProfile.skills, LAMBDA skill :
                ~Some(studentProfile.skills, LAMBDA studentSkill :
                    includes(toLowerCase(studentSkill), toLowerCase(skill))))
        derived ==
            (IF HasType(criteria, "career_similarity") /\ hasCareerAlignment
             THEN <<"works_in_industry">> ELSE <<>>)
            \o (IF HasType(criteria, "skill_complement") /\ Len(matchingSkills) > 0
                THEN <<"shares_skills">> ELSE <<>>)
            \o (IF HasType(criteria, "skill_complement") /\ Len(newSkills) > 0
                THEN <<"can_help_you_learn">> ELSE <<>>)
            \o (IF ~HasType(criteria, "geographic_proximity") THEN <<>>
                ELSE IF toLowerCase(studentProfile.location)
                            = toLowerCase(alumniProfile.location)
                     THEN <<"same_city">>
                ELSE IF Gt(Route_calculateGeographicProximity(
                               studentProfile.location, alumniProfile.location), R(5, 10))
                     THEN <<"same_region">>
                ELSE <<>>)
            \o (IF alumniProfile.isAvailableForMentoring /\ studentProfile.isSeekingMentorship
                THEN <<"available_for_mentorship">> ELSE <<>>)
            \o (IF Gt(totalScore, R(8, 10)) THEN <<"excellent_compatibility">>
                ELSE IF Gt(totalScore, R(6, 10)) THEN <<"strong_alignment">>
                ELSE <<>>)
    IN  [scores |-> <<>>, reasons |-> slice(derived, 4), derived |-> derived,
         matchTypes |-> <<>>]

ReasonCriteria ==
    {Map(types, LAMBDA t : [type |-> t, weight |-> One]) :
        types \in SeqsUpTo(CriterionTypes, MaxCriteria)}

ReasonSeekers ==
    {Student("s1", D_ComputerScience, <<K_Python>>, <<T_Software>>, TRUE, L_BostonMA),
     Student("s1", D_ComputerScience, <<K_Python>>,
             <<T_Software, T_Banking, T_Accountant, T_Technology>>, TRUE, L_BostonMA),
     Alumni("s2", D_History, <<K_Leadership>>, T_Accountant, T_Banking, L_MiamiFlorida,
            1, FALSE, <<>>)}

ReasonStudents ==
    {RouteStudent(T_JohnDoe, D_ComputerScience, <<T_Software>>, <<K_Python>>,
                  location, seeking, T_bio_student) :
        location \in {L_BostonMA, L_SanFranciscoCA, L_SeattleWA}, seeking \in BOOLEAN}

ReasonIdle ==
    /\ rsEngine = "none"
    /\ rsInput = NoResult
    /\ rsResult = NoResult

ReasonInit ==
    /\ rsEngine \in {"AME", "IME", "ROUTE"}
    /\ rsInput = NoResult
    /\ rsResult = NoResult

Reasons_AME_calculateMatch ==
    /\ rsEngine = "AME"
    /\ rsResult = NoResult
    /\ \E seeker \in ReasonSeekers, alumni \in Candidates :
        \E scores \in {[t \in CriterionTypes |-> AME_criterionScore(t, seeker, alumni)]} :
        \E criteria \in ReasonCriteria :
            /\ rsInput' = [seeker |-> seeker, candidate |-> alumni, criteria |-> criteria]
            /\ rsResult' = AME_reasonsOf(criteria, scores, alumni)
    /\ UNCHANGED <<rsEngine, notReason>>

Reasons_IME_calculateMatchScore ==
    /\ rsEngine = "IME"
    /\ rsResult = NoResult
    /\ \E seeker \in ReasonSeekers, candidate \in Candidates, c \in Contexts,
          llm \in LLMResponses :
        LET context == [userProfile |-> seeker, context |-> c]
        IN  /\ rsInput' = [seeker |-> seeker, candidate |-> candidate, context |-> c,
                           llm |-> llm]
            /\ rsResult' = IME_reasonsOf(context, candidate,
                                         IME_calculateCareerSimilarity(llm),
                                         IME_pairScores(context, candidate))
    /\ UNCHANGED <<rsEngine, notReason>>

Reasons_Route_generateMatchReasons ==
    /\ rsEngine = "ROUTE"
    /\ rsResult = NoResult
    /\ \E studentProfile \in ReasonStudents, i \in 1..Len(mockAlumni),
          studentVector \in StudentVectors :
        \E resp \in {ProviderReturns(studentVector, RouteAlumniVector(i))} :
        \E criteria \in {cs \in ReasonCriteria : Len(cs) <= 2} \cup {Route_defaultCriteria} :
        \E score \in {Route_calculateMatchScore(studentProfile, mockAlumni[i],
                                                criteria, resp)} :
            /\ rsInput' = [seeker |-> studentProfile, candidate |-> mockAlumni[i],
                           criteria |-> criteria, score |-> score]
            /\ rsResult' = Route_generateMatchReasons(studentProfile, mockAlumni[i],
                                                      criteria, score)
    /\ UNCHANGED <<rsEngine, notReason>>

(***************************************************************************)
(* The embedding requests of one ranking call.  A candidate's evaluation   *)
(* is a task; a task stands at the request it awaits.  The code that runs  *)
(* between two awaits runs to completion, so it is part of the step that   *)
(* resolves the first of them.                                             *)
(*   ROUTE  Promise.all(mockAlumni.map(async ...)) starts every task in    *)
(*          one turn; calculateSemanticSimilarity awaits two requests one  *)
(*          after the other, once per career or mentorship criterion.      *)
(*   AME    findMatches awaits the seeker's embedding, then awaits         *)
(*          calculateMatch for one candidate after the other; each awaits  *)
(*          the candidate's embedding and then the insight completion.     *)
(***************************************************************************)
FlightPools == 1..Len(mockAlumni)

\* how many of the criteria call calculateSemanticSimilarity
SemanticCalls == 1..2

Task(pc_, left) == [pc |-> pc_, left |-> left]

AwaitsEmbedding(task) == task.pc \in {"embedding", "embedding1", "embedding2"}

EmbeddingsInFlight ==
    Cardinality({i \in 1..flPool : AwaitsEmbedding(flTask[i])})
        + (IF flSeeker = "embedding" THEN 1 ELSE 0)

UnderEvaluation == {i \in 1..flPool : flTask[i].pc \notin {"pending", "done"}}

Waiting == {i \in 1..flPool : flTask[i].pc = "pending"}

FlightIdle ==
    /\ flEngine = "none"
    /\ flPool = 0
    /\ flCalls = 0
    /\ flSeeker = "pending"
    /\ flTask = <<>>

FlightInit ==
    /\ flEngine \in {"AME", "ROUTE"}
    /\ flPool \in (IF flEngine = "ROUTE" THEN {Len(mockAlumni)} ELSE FlightPools)
    /\ flCalls \in (IF flEngine = "ROUTE" THEN SemanticCalls ELSE {1})
    /\ flSeeker = "pending"
    /\ flTask = [i \in 1..flPool |-> Task("pending", 0)]

\* the next await of a route task that has left a calculateSemanticSimilarity
Route_afterSimilarity(task) ==
    IF task.left > 0 THEN Task("embedding1", task.left - 1) ELSE Task("done", 0)

Flight_Route_POST ==
    /\ flEngine = "ROUTE"
    /\ flSeeker = "pending"
    /\ flSeeker' = "done"
    /\ flTask' = [i \in 1..flPool |-> Task("embedding1", flCalls - 1)]
    /\ UNCHANGED <<flEngine, flPool, flCalls, notFlight>>

Flight_Route_Resolve ==
    /\ flEngine = "ROUTE"
    /\ \E i \in 1..flPool, ok \in BOOLEAN :
        /\ flTask[i].pc \in {"embedding1", "embedding2"}
        /\ flTask' = [flTask EXCEPT ![i] =
                        IF flTask[i].pc = "embedding1" /\ ok
                        THEN Task("embedding2", flTask[i].left)
                        ELSE Route_afterSimilarity(flTask[i])]
    /\ UNCHANGED <<flEngine, flPool, flCalls, flSeeker, notFlight>>

Flight_AME_findMatches ==
    /\ flEngine = "AME"
    /\ flSeeker = "pending"
    /\ flSeeker' = "embedding"
    /\ UNCHANGED <<flEngine, flPool, flCalls, flTask, notFlight>>

Flight_AME_SeekerResolve ==
    /\ flEngine = "AME"
    /\ flSeeker = "embedding"
    /\ flSeeker' = "done"
    /\ flTask' = [flTask EXCEPT ![1] = Task("embedding", 0)]
    /\ UNCHANGED <<flEngine, flPool, flCalls, notFlight>>

Flight_AME_Resolve ==
    /\ flEngine = "AME"
    /\ \E i \in 1..flPool :
        /\ flTask[i].pc \in {"embedding", "insights"}
        /\ flTask' = [j \in 1..flPool |->
                        IF j = i
                        THEN (IF flTask[i].pc = "embedding"
                              THEN Task("insights", 0) ELSE Task("done", 0))
                        ELSE IF j = i + 1 /\ flTask[i].pc = "insights"
                        THEN Task("embedding", 0)
                        ELSE flTask[j]]
    /\ UNCHANGED <<flEngine, flPool, flCalls, flSeeker, notFlight>>

(***************************************************************************)
(* Two embed requests for one profile, made at once on one engine (the     *)
(* exported alumniMatcher, or one IntelligentMatchingEngine).  A request   *)
(* looks the profile up, and on a miss awaits the provider; what follows   *)
(* the await runs to completion.  The provider may answer the two requests *)
(* differently, or fail either.                                            *)
(***************************************************************************)
Racers == {1, 2}

ProviderFailure == [ok |-> FALSE]
ProviderAnswer(vector) == [ok |-> TRUE, vector |-> vector]

RaceResponses ==
    {ProviderFailure, ProviderAnswer(RemoteVector(<<3, 4>>)),
     ProviderAnswer(RemoteVector(<<4, 3>>))}

RaceKey(eng, id) ==
    IF eng = "AME" THEN AlumniKey(id) ELSE VectorKey([id |-> id, lastActive |-> 1])

\* what generateProfileEmbedding returns from its catch
FallbackEmbedding == getMockEmbedding(s_fallback)

\* what follows the await when only the first write of a key is kept
Race_afterAwait_KeepFirst(eng, cache, key, resp) ==
    IF Has(cache, key)
    THEN [vector |-> Get(cache, key), cache |-> cache, wrote |-> FALSE]
    ELSE IF eng = "AME"
    THEN With(IF resp.ok THEN resp.vector ELSE FallbackEmbedding,
              LAMBDA embedding :
                  [vector |-> embedding, cache |-> Set(cache, key, embedding),
                   wrote |-> TRUE])
    ELSE IF resp.ok
    THEN [vector |-> resp.vector, cache |-> Set(cache, key, resp.vector), wrote |-> TRUE]
    ELSE [vector |-> ZeroVector, cache |-> cache, wrote |-> FALSE]

\* what follows the await of getAlumniEmbedding (generateProfileEmbedding has
\* caught a failure) and of generateProfileVector
Race_afterAwait(eng, cache, key, resp) ==
    IF eng = "AME"
    THEN With(IF resp.ok THEN resp.vector ELSE FallbackEmbedding,
              LAMBDA embedding :
                  [vector |-> embedding, cache |-> Set(cache, key, embedding),
                   wrote |-> TRUE])
    ELSE IF resp.ok
    THEN [vector |-> resp.vector, cache |-> Set(cache, key, resp.vector), wrote |-> TRUE]
    ELSE [vector |-> ZeroVector, cache |-> cache, wrote |-> FALSE]

RaceIdle ==
    /\ rcEngine = "none"
    /\ rcProfile = "none"
    /\ rcCache = {}
    /\ rcPc = <<>>
    /\ rcResp = <<>>
    /\ rcRet = <<>>
    /\ rcWriter = 0

RaceInit ==
    /\ rcEngine \in {"AME", "IME"}
    /\ rcProfile \in CacheAlumniIds
    /\ rcCache = {}
    /\ rcPc = [p \in Racers |-> "start"]
    /\ rcResp = [p \in Racers |-> NoResult]
    /\ rcRet = [p \in Racers |-> NoResult]
    /\ rcWriter = 0

\* if (cache.has(key)) return cache.get(key); otherwise the request is sent
Race_Lookup ==
    /\ \E p \in Racers :
        /\ rcPc[p] = "start"
        /\ IF Has(rcCache, RaceKey(rcEngine, rcProfile))
           THEN /\ rcPc' = [rcPc EXCEPT ![p] = "done"]
                /\ rcRet' = [rcRet EXCEPT ![p] = Get(rcCache, RaceKey(rcEngine, rcProfile))]
           ELSE /\ rcPc' = [rcPc EXCEPT ![p] = "awaiting"]
                /\ rcRet' = rcRet
    /\ UNCHANGED <<rcEngine, rcProfile, rcCache, rcResp, rcWriter, notRace>>

\* the provider answers or fails a request; the caller stores and returns
Race_Resolve ==
    /\ \E p \in Racers, resp \in RaceResponses :
        /\ rcPc[p] = "awaiting"
        /\ \E out \in {Race_afterAwait(rcEngine, rcCache,
                                       RaceKey(rcEngine, rcProfile), resp)} :
            /\ rcCache' = out.cache
            /\ rcRet' = [rcRet EXCEPT ![p] = out.vector]
            /\ rcWriter' = IF out.wrote THEN p ELSE rcWriter
        /\ rcResp' = [rcResp EXCEPT ![p] = resp]
        /\ rcPc' = [rcPc EXCEPT ![p] = "done"]
    /\ UNCHANGED <<rcEngine, rcProfile, notRace>>

(***************************************************************************)
(* The insights of findMatches.  calculateMatch awaits generateMatchInsights *)
(* after the final score is computed; an exception it let through would    *)
(* reach the catch of findMatches.  An insight is kept as the sentences it *)
(* is made of: the templates of getMockInsights by their index, the        *)
(* provider's text, or the default sentence.                               *)
(***************************************************************************)
\* the completion: the request throws, the response has no choices array,
\* the content is empty, or a text is returned
InsightOutcomes == {"fails", "malformed", "empty", "answers"}

\* Math.random() in getMockInsights, by the fifth of [0,1) it falls in
InsightRandoms == 0..4

MockInsight(indices) == [kind |-> "mock", sentences |-> indices]
ProviderInsight == [kind |-> "provider", sentences |-> <<0>>]
DefaultInsight == [kind |-> "default", sentences |-> <<0>>]

\* Math.floor(Math.random() * 3) and Math.floor(Math.random() * 5)
AME_getMockInsights(score, random) ==
    IF Gt(score, R(8, 10)) THEN MockInsight(<<0, 1>>)
    ELSE IF Gt(score, R(6, 10)) THEN MockInsight(<<(random * 3) \div 5>>)
    ELSE MockInsight(<<random>>)

\* generateMatchInsights without its try and catch
AME_generateMatchInsights_NoCatch(seeker, alumni, score, key, outcome, random) ==
    IF key = "demo-key" THEN AME_getMockInsights(score, random)
    ELSE IF IsMissing(seeker, "skills") \/ IsMissing(alumni, "skills") THEN TypeError
    ELSE IF outcome \in {"fails", "malformed"} THEN TypeError
    ELSE IF outcome = "empty" THEN DefaultInsight
    ELSE ProviderInsight

AME_generateMatchInsights(seeker, alumni, score, key, outcome, random) ==
    IF key = "demo-key" THEN AME_getMockInsights(score, random)
    ELSE IF IsMissing(seeker, "skills") \/ IsMissing(alumni, "skills")
    THEN AME_getMockInsights(score, random)
    ELSE IF outcome \in {"fails", "malformed"} THEN AME_getMockInsights(score, random)
    ELSE IF outcome = "empty" THEN DefaultInsight
    ELSE ProviderInsight

\* findMatches with the insight of every candidate it scores
AME_findMatchesWithInsights(req, cache, key) ==
    With(AME_findMatches(req, cache, key), LAMBDA out :
        IF out.status # "ok"
        THEN [status |-> "fallback", matches |-> <<>>, scored |-> <<>>, insights |-> <<>>]
        ELSE With([i \in 1..Len(out.scored) |->
                      AME_generateMatchInsights(
                          SeekerOf(req.seeker), CandidateOf(req.pool[i]),
                          out.scored[i].score, key, req.outcomes[i], req.random)],
                  LAMBDA insights :
                 IF Some(insights, Throws)
                 THEN [status |-> "fallback", matches |-> <<>>, scored |-> <<>>,
                       insights |-> <<>>]
                 ELSE [status |-> "ok", matches |-> out.matches, scored |-> out.scored,
                       insights |-> insights]))

InsightCriteria ==
    {Undefined, Given(<<[type |-> "career_similarity", weight |-> One]>>)}

Answered(req) == [req EXCEPT !.outcomes = [i \in 1..Len(req.pool) |-> "answers"]]

InsightIdle ==
    /\ inRequest = NoResult
    /\ inResult = NoResult

\* the first call of findMatches on a new engine; smooth is the same call
\* when every completion returns a text
Insight_AME_Call ==
    /\ inResult = NoResult
    /\ \E seeker \in SeekerIds, pool \in Pools, criteria \in InsightCriteria,
          key \in {"demo-key", "live"}, random \in InsightRandoms :
        \E outcomes \in [1..Len(pool) -> InsightOutcomes] :
            LET req == [seeker |-> seeker, pool |-> pool, criteria |-> criteria,
                        limit |-> Undefined, failing |-> {}, key |-> key,
                        outcomes |-> outcomes, random |-> random]
            IN  \E out \in {AME_findMatchesWithInsights(req, loadMockEmbeddings, key)} :
                \E smooth \in {AME_findMatchesWithInsights(Answered(req),
                                                           loadMockEmbeddings, key)} :
                /\ inRequest' = req
                /\ inResult' =
                       [status |-> out.status,
                        matches |-> IF out.status = "fallback"
                                    THEN AME_getFallbackMatches(
                                             pool, LimitOf(req),
                                             [i \in 1..Len(slice(pool, LimitOf(req)))
                                                  |-> R(50, 100)])
                                    ELSE out.matches,
                        scored |-> out.scored, insights |-> out.insights,
                        smooth |-> [status |-> smooth.status, matches |-> smooth.matches,
                                    scored |-> smooth.scored]]
    /\ UNCHANGED notInsight

(***************************************************************************)
(* The bench of the route's lexical similarity: two texts are given, then  *)
(* calculateSemanticSimilarity runs with a failing provider, and so do the *)
(* two criteria that call it, for a student who wrote the first text as    *)
(* major, career interest and bio, against the first of mockAlumni.        *)
(***************************************************************************)
MaxWords == 3

W_AI == <<"A","I">>

LexWords == {T_Technology, W_AI}

LexTexts == {join(words, <<" ">>) : words \in SeqsUpTo(LexWords, MaxWords) \ {<<>>}}

LexStudent(text) ==
    RouteStudent(T_JohnDoe, text, <<text>>, <<K_Python>>, L_BostonMA, TRUE, text)

LexIdle ==
    /\ lxText1 = <<>>
    /\ lxText2 = <<>>
    /\ lxResult = NoResult

LexInit ==
    /\ lxText1 \in LexTexts
    /\ lxText2 \in LexTexts
    /\ lxResult = NoResult

LexSimilarity ==
    /\ lxResult = NoResult
    /\ lxResult' =
           [similarity |->
                Route_calculateSemanticSimilarity(lxText1, lxText2, ProviderFails),
            career |->
                Route_criterionScore("career_similarity", LexStudent(lxText1),
                                     mockAlumni[1], ProviderFails),
            mentorship |->
                Route_criterionScore("mentorship_fit", LexStudent(lxText1),
                                     mockAlumni[1], ProviderFails)]
    /\ UNCHANGED <<lxText1, lxText2, notLex>>

LateIdle == ReasonIdle /\ FlightIdle /\ RaceIdle /\ InsightIdle /\ LexIdle

(***************************************************************************)
(* Specifications                                                          *)
(***************************************************************************)
\* nothing has run on the benches of the calculators
BenchesIdle == GeoIdle /\ SkillIdle /\ MentorIdle /\ RankIdle
MidIdle == EmbedIdle /\ FrameIdle /\ CacheIdle /\ SubIdle /\ WeightIdle /\ CosIdle
MoreIdle == MidIdle /\ LateIdle

Init == RankInit /\ GeoIdle /\ SkillIdle /\ MentorIdle /\ MoreIdle
Next == AME_Call \/ IME_Call \/ Route_Call \/ Return
Spec == Init /\ [][Next]_vars

InitGeo == GeoInit /\ SkillIdle /\ MentorIdle /\ RankIdle /\ MoreIdle
SpecGeo == InitGeo /\ [][GeoScore]_vars

InitSkill == SkillInit /\ GeoIdle /\ MentorIdle /\ RankIdle /\ MoreIdle
SpecSkill == InitSkill /\ [][SkillScore \/ SkillAdd]_vars

InitMentor == MentorInit /\ GeoIdle /\ SkillIdle /\ RankIdle /\ MoreIdle
SpecMentor == InitMentor /\ [][MentorScore]_vars

InitEmbed == EmbedIdle /\ BenchesIdle /\ FrameIdle /\ CacheIdle /\ SubIdle /\ WeightIdle /\ CosIdle /\ LateIdle
SpecEmbed == InitEmbed /\ [][GetMockEmbedding]_vars

InitFrame == FrameInit /\ BenchesIdle /\ EmbedIdle /\ CacheIdle /\ SubIdle /\ WeightIdle /\ CosIdle /\ LateIdle
SpecFrame == InitFrame /\ [][AME_FindMatches_Profiles]_vars

InitCache == CacheInit /\ BenchesIdle /\ EmbedIdle /\ FrameIdle /\ SubIdle /\ WeightIdle /\ CosIdle /\ LateIdle
SpecCache == InitCache /\ [][Cache_Call \/ Cache_UpdateProfile \/ Cache_Tick]_vars

InitSub == SubInit /\ BenchesIdle /\ EmbedIdle /\ FrameIdle /\ CacheIdle /\ WeightIdle /\ CosIdle /\ LateIdle
SpecSub == InitSub /\ [][SubScore]_vars

InitWeight == WeightInit /\ BenchesIdle /\ EmbedIdle /\ FrameIdle /\ CacheIdle /\ SubIdle /\ CosIdle /\ LateIdle
SpecWeight == InitWeight /\ [][Weight_AME_Call \/ Weight_Route_Call]_vars

InitReason == ReasonInit /\ BenchesIdle /\ MidIdle /\ FlightIdle /\ RaceIdle /\ InsightIdle /\ LexIdle
SpecReason ==
    InitReason /\ [][Reasons_AME_calculateMatch \/ Reasons_IME_calculateMatchScore
                        \/ Reasons_Route_generateMatchReasons]_vars

InitFlight == FlightInit /\ BenchesIdle /\ MidIdle /\ ReasonIdle /\ RaceIdle /\ InsightIdle /\ LexIdle
SpecFlight ==
    InitFlight /\ [][Flight_Route_POST \/ Flight_Route_Resolve \/ Flight_AME_findMatches
                        \/ Flight_AME_SeekerResolve \/ Flight_AME_Resolve]_vars

\* a request to the provider is answered, fails or times out; a timeout is a
\* failure, so every request sent resolves
InitRace == RaceInit /\ BenchesIdle /\ MidIdle /\ ReasonIdle /\ FlightIdle /\ InsightIdle /\ LexIdle
SpecRace ==
    InitRace /\ [][Race_Lookup \/ Race_Resolve]_vars
        /\ WF_vars(Race_Lookup) /\ WF_vars(Race_Resolve)

InitInsight == BenchesIdle /\ MidIdle /\ LateIdle
SpecInsight == InitInsight /\ [][Insight_AME_Call]_vars

InitLex == LexInit /\ BenchesIdle /\ MidIdle /\ ReasonIdle /\ FlightIdle /\ RaceIdle /\ InsightIdle
SpecLex == InitLex /\ [][LexSimilarity]_vars

InitCos == CosInit /\ BenchesIdle /\ EmbedIdle /\ FrameIdle /\ CacheIdle /\ SubIdle /\ WeightIdle /\ LateIdle
SpecCos == InitCos /\ [][CosineSimilarity]_vars

(***************************************************************************)
(* Properties of a ranking call, stated on the request and the response of *)
(* a call that has returned.                                               *)
(***************************************************************************)
Returned == pc = "returned"

Threshold == R(3, 10)

\* C1: every score in the list a ranking call returns lies in [0,1].
C1_ScoresInUnitInterval ==
    Returned =>
        \A i \in 1..Len(response.matches) : InUnit(response.matches[i].score)

\* The order of the candidate identifiers
CandidateIdOrder == <<"1", "2", "3", "4", "5", "a1", "a2", "a3">>
IdRank(id) == CHOOSE k \in 1..Len(CandidateIdOrder) : CandidateIdOrder[k] = id

\* C2: the returned list is sorted non-increasing by score, and results with
\* equal scores are in the order of their candidate identifiers, whatever the
\* order of the pool.
C2_SortedTiesById ==
    (Returned /\ response.status = "ok") =>
        \A i, j \in 1..Len(response.matches) :
            i < j =>
                /\ Ge(response.matches[i].score, response.matches[j].score)
                /\ response.matches[i].score = response.matches[j].score
                       => IdRank(response.matches[i].id) < IdRank(response.matches[j].id)

\* C3: a ranking call returns at most limit results (10 when none is given),
\* and no returned candidate has a score below the 0.3 admission threshold.
C3_LimitAndThreshold ==
    Returned =>
        /\ Len(response.matches) <= LimitOf(request)
        /\ \A i \in 1..Len(response.matches) : Ge(response.matches[i].score, Threshold)

\* C4: when the criteria list is empty or all its weights are zero, the final
\* score of every candidate is the cosine similarity of the two embeddings.
C4_ZeroWeightIsCosine ==
    (/\ Returned
     /\ engine \in {"AME", "ROUTE"}
     /\ response.status = "ok"
     /\ request.criteria.given
     /\ SumWeights(request.criteria.value, Len(request.criteria.value)) = Zero)
    => \A i \in 1..Len(response.scored) :
           response.scored[i].score = response.scored[i].semantic

\* The profile whose provider request fails gets the fallback: the
\* AlumniMatchingEngine stores the embedding of 'fallback' for it, the
\* IntelligentMatchingEngine compares the zero vector, the route compares the
\* words of the two texts.  A candidate that the engine's cache holds before
\* the call makes no request.
AME_FallbackUsed(req, before, after) ==
    \A i \in req.failing \cap (1..Len(req.pool)) :
        ~Has(before, AlumniKey(req.pool[i]))
            => Get(after, AlumniKey(req.pool[i])) = getMockEmbedding(s_fallback)

IME_FallbackUsed(req, resp, before) ==
    \A i \in req.failing \cap (1..Len(req.pool)) :
        ~Has(before, VectorKey(CandidateOf(req.pool[i])))
            => resp.scored[i].semantic = Zero

Route_FallbackUsed(req, resp) ==
    \A i \in req.failing :
        resp.scored[i].semantic =
            calculateSimpleTextSimilarity(
                req.seeker.major \o <<" ">> \o join(req.seeker.careerInterests, <<" ">>),
                mockAlumni[i].currentPosition \o <<" ">> \o mockAlumni[i].industry)

FailureContained(req, resp) ==
    /\ resp.status = resp.baseline.status
    /\ Len(resp.scored) = Len(resp.baseline.scored)
    /\ 0 \notin req.failing =>
           \A i \in (1..Len(resp.scored)) \ req.failing :
               resp.scored[i] = resp.baseline.scored[i]

SeekerProfile == IF engine = "ROUTE" THEN request.seeker ELSE SeekerOf(request.seeker)

UsesSkills ==
    \/ engine = "IME"
    \/ ~request.criteria.given
    \/ Some(request.criteria.value, LAMBDA c : c.type = "skill_complement")

\* C6: a seeker without a skills list is no hard failure: the call ends
\* normally and every candidate of the pool is scored.
C6_MissingFieldIsNeutral ==
    (Returned /\ IsMissing(SeekerProfile, "skills") /\ UsesSkills) =>
        /\ response.status = "ok"
        /\ Len(response.scored) = Len(request.pool)

\* C7: when no candidate reaches the admission threshold (as with an empty
\* pool), the returned list is empty.
C7_NoneAdmittedIsEmpty ==
    (/\ Returned
     /\ response.status = "ok"
     /\ \A i \in 1..Len(response.scored) : Lt(response.scored[i].score, Threshold))
    => response.matches = <<>>

(***************************************************************************)
(* C8: the tiers of geographic proximity as the specification states them: *)
(* 1.0 for equal locations ignoring case, 0.7 for equal trailing tokens,   *)
(* 0.5 only when both trailing tokens are members of one region set, and   *)
(* 0.2 otherwise.                                                          *)
(***************************************************************************)
IsMember(region, state) == \E i \in 1..Len(region) : region[i] = state

StatedGeographicTier(l1, l2) ==
    LET a == toLowerCase(l1)
        b == toLowerCase(l2)
        sa == getState(a)
        sb == getState(b)
    IN  IF a = b THEN R(1, 1)
        ELSE IF sa = sb THEN R(7, 10)
        ELSE IF \E region \in {westCoast, eastCoast, texas} :
                    IsMember(region, sa) /\ IsMember(region, sb)
             THEN R(5, 10)
        ELSE R(2, 10)

\* C8: for any two location strings the route's geographic proximity is the stated tier.
C8_GeographicTiers ==
    geoResult # NoResult =>
        geoResult.route = StatedGeographicTier(location1, location2)


(***************************************************************************)
(* C9: adding to the candidate's skills a skill that the seeker also has   *)
(* never lowers the skill-complementarity score, in any of the three       *)
(* calculators.                                                            *)
(***************************************************************************)
\* C9: after a skill of the seeker is added to the candidate's skills, each
\* calculator's skill score is greater than or equal to the score before.
C9_SkillMonotone ==
    skAfter # NoResult =>
        /\ Ge(skAfter.route, skBefore.route)
        /\ Ge(skAfter.ame, skBefore.ame)
        /\ Ge(skAfter.ime, skBefore.ime)

\* A case where the added skill is new to the candidate and raises the overlap.
C9_Witness ==
    /\ skAfter # NoResult
    /\ Len(skAlumni) = MaxSkills + 1
    /\ Gt(skAfter.route, skBefore.route)
    /\ Gt(skAfter.ime, skBefore.ime)

(***************************************************************************)
(* C10: a candidate who is not available for mentorship has a              *)
(* mentorship_fit sub-score of exactly 0 in every calculator, whatever the *)
(* seeker and the matching context.                                        *)
(***************************************************************************)
\* C10: a candidate who is not a mentor has mentorship fit 0 in every calculator.
C10_NonMentorScoresZero ==
    (mtResult # NoResult /\ ~mtCandidate.isMentor) =>
        /\ mtResult.ame = Zero
        /\ mtResult.ime = Zero
        /\ mtResult.route = Zero

(***************************************************************************)
(* C11: getMockEmbedding is a function of its text.                        *)
(***************************************************************************)
SameVector(a, b) ==
    /\ a.dim = b.dim
    /\ \A k \in 1..a.dim : Entry(a, k) = Entry(b, k)

C12_ProfilesUnchanged ==
    frBefore # NoResult =>
        /\ frSeeker = frBefore.seeker
        /\ frPool = frBefore.pool

\* C13: once an embed request for a profile has succeeded and its vector is
\* stored, every later request for the same profile id and the same lastActive
\* marker returns that vector and does not call the provider.
C13_CacheMemoizes ==
    \A i, j \in 1..Len(caLog) :
        (/\ i < j
         /\ caLog[i].id = caLog[j].id
         /\ caLog[i].lastActive = caLog[j].lastActive
         /\ caLog[i].ok
         /\ caLog[i].stored)
        => /\ ~caLog[j].provider
           /\ caLog[j].vector = caLog[i].vector

\* C14: a request answered from the cache returns a vector that was stored for
\* the same profile id under the same lastActive marker; a vector cached under
\* an older marker is never returned.
C14_CacheInvalidates ==
    \A j \in 1..Len(caLog) :
        caLog[j].hit =>
            \E i \in 1..(j - 1) :
                /\ caLog[i].stored
                /\ caLog[i].id = caLog[j].id
                /\ caLog[i].lastActive = caLog[j].lastActive
                /\ caLog[i].vector = caLog[j].vector

\* C15: every sub-score calculator returns a value in [0,1] for every seeker
\* and candidate, also when the candidate's skills list holds a name several
\* times and when several interest tags of the seeker match.
C15_SubScoresInUnitInterval ==
    suResult # NoResult =>
        \A e \in DOMAIN suResult : \A c \in DOMAIN suResult[e] :
            InUnit(suResult[e][c])

\* C17: the geographic proximity score is never 0: every calculator returns at
\* least 0.2 for every pair of profiles, also when a location is missing or empty.
C17_GeographicAtLeastFifth ==
    suResult # NoResult =>
        \A e \in DOMAIN suResult : Le(R(1, 5), suResult[e].geo)

(***************************************************************************)
(* C16: the skill complementarity as the specification states it.          *)
(***************************************************************************)
StatedSkillMatches(a, b) ==
    includes(toLowerCase(a), toLowerCase(b)) \/ includes(toLowerCase(b), toLowerCase(a))

StatedOverlapRatio(seekerNames, candidateNames) ==
    LET matching == Filter(seekerNames, LAMBDA sk :
                        Some(candidateNames, LAMBDA ck : StatedSkillMatches(sk, ck)))
    IN  R(Len(matching), MaxOne(Len(seekerNames)))

StatedComplementRatio(seekerNames, candidateNames) ==
    LET unmatched == Filter(candidateNames, LAMBDA ck :
                         ~Some(seekerNames, LAMBDA sk : StatedSkillMatches(sk, ck)))
    IN  IF Len(unmatched) >= 5 THEN One ELSE R(Len(unmatched), 5)

StatedSkillComplementarity(seekerNames, candidateNames) ==
    Plus(Times(R(4, 10), StatedOverlapRatio(seekerNames, candidateNames)),
         Times(R(6, 10), StatedComplementRatio(seekerNames, candidateNames)))

\* C16: for every seeker and candidate skills list, each calculator's skill
\* complementarity is 0.4 x overlapRatio + 0.6 x complementRatio as stated; with
\* no seeker skills the overlap ratio is 0 and the score is a number.
C16_SkillFormula ==
    skBefore # NoResult =>
        LET stated == StatedSkillComplementarity(skSeeker.names, skAlumni)
            scores == IF skAfter # NoResult THEN skAfter ELSE skBefore
        IN  /\ scores.route = stated
            /\ scores.ame = stated
            /\ scores.ime = stated

\* C18: multiplying every criterion weight by the same positive constant
\* leaves the status, every candidate's final score and the returned ranking
\* of a call unchanged.
C18_WeightScaleInvariant ==
    wtBase # NoResult => wtScaled = wtBase

\* C19: when one of the two vectors has zero norm, each implementation of the
\* cosine similarity returns exactly 0, and no value it returns, nor the final
\* score computed from it, is not-a-number.
C19_ZeroNormIsZero ==
    coResult # NoResult =>
        /\ (Norm2(coA) = 0 \/ Norm2(coB) = 0) =>
               /\ coResult.ame = Zero
               /\ coResult.ime = Zero
               /\ coResult.route = Zero
        /\ \A f \in DOMAIN coResult : ~IsNaN(coResult[f])

(***************************************************************************)
(* C20: the admission filter of AlumniMatchingEngine.findMatches.  A call  *)
(* with rule score 0 and cosine similarity 1 has the final score           *)
(* 0 * 0.7 + 1 * 0.3, which is the double 0.3 as well as the rational.     *)
(***************************************************************************)
Admissible(scored) == Filter(scored, LAMBDA m : Ge(m.score, Threshold))

\* C20: findMatches discards a candidate only when its final score is below
\* 0.3: when the limit allows, every candidate whose final score is 0.3 or more,
\* so also one whose score is exactly 0.3, appears in the returned list.
C20_ThresholdAdmitted ==
    (/\ Returned
     /\ engine = "AME"
     /\ response.status = "ok"
     /\ Len(Admissible(response.scored)) <= LimitOf(request))
    => \A i \in 1..Len(response.scored) :
           Ge(response.scored[i].score, Threshold)
               => \E j \in 1..Len(response.matches) :
                      response.matches[j].id = response.scored[i].id

\* C21: every scored candidate carries at most 4 reasons, for every criteria
\* list (also one that repeats a criterion kind) and every matching context,
\* and the reasons kept are the first ones derived, in the order of derivation.
C21_AtMostFourReasons ==
    rsResult # NoResult =>
        /\ Len(rsResult.reasons) <= 4
        /\ rsResult.reasons = slice(rsResult.derived, 4)

(***************************************************************************)
(* C22: the notable threshold of each criterion as the specification       *)
(* states it.                                                              *)
(***************************************************************************)
StatedNotable(type, score, candidate) ==
    IF type = "career_similarity" THEN Gt(score, R(7, 10))
    ELSE IF type = "skill_complement" THEN Gt(score, R(6, 10))
    ELSE IF type = "geographic_proximity" THEN Gt(score, R(8, 10))
    ELSE Gt(score, R(7, 10)) /\ candidate.isMentor

HasReason(type) == \E i \in 1..Len(rsResult.reasons) : rsResult.reasons[i] = type
InMatchTypes(type) == \E i \in 1..Len(rsResult.matchTypes) : rsResult.matchTypes[i] = type

\* C22: in both engines the reason of a criterion that was scored is appended
\* exactly when its sub-score is above its notable threshold (mentorship also
\* needs a candidate who is a mentor), and calculateMatch lists the criterion
\* in matchTypes in exactly those cases.
C22_NotableExactly ==
    (rsResult # NoResult /\ rsEngine \in {"AME", "IME"}) =>
        \A i \in 1..Len(rsResult.scores) :
            LET e == rsResult.scores[i]
                notable == StatedNotable(e.type, e.score, rsInput.candidate)
            IN  /\ HasReason(e.type) <=> notable
                /\ rsEngine = "AME" => (InMatchTypes(e.type) <=> notable)

\* C23: in the first ranking call of an engine, where the log holds the
\* seeker's vector and then the candidates' vectors, every candidate's vector
\* has the length of the seeker's vector, also when the provider fails for some
\* of the profiles and succeeds for the others.
C23_EqualDimensions ==
    caCalls = 1 =>
        \A j \in 2..Len(caLog) : caLog[j].vector.dim = caLog[1].vector.dim

(***************************************************************************)
(* Properties of the provider requests of one ranking call.                *)
(***************************************************************************)
\* a limit that does not grow with the pool is below the largest pool
ConcurrencyLimit == Len(mockAlumni) - 1

\* C24: during a ranking call the candidates are evaluated concurrently (a
\* candidate waits only while another two are under evaluation), and at every
\* moment the number of embedding requests in flight is at most a fixed limit,
\* whatever the size of the pool.
C24_BoundedConcurrency ==
    flSeeker = "done" =>
        /\ EmbeddingsInFlight <= ConcurrencyLimit
        /\ Waiting # {} => Cardinality(UnderEvaluation) >= 2

(***************************************************************************)
(* Properties of two embed requests made at once.                          *)
(***************************************************************************)
RaceDone == \A p \in Racers : rcPc[p] = "done"
BothMissed == \A p \in Racers : rcResp[p] # NoResult

\* what the request returns when it is the only one, on the same response
Alone(eng, id, resp) == Race_afterAwait(eng, {}, RaceKey(eng, id), resp).vector

RaceHarmless ==
    (RaceDone /\ BothMissed) =>
        /\ \A p \in Racers : rcRet[p] = Alone(rcEngine, rcProfile, rcResp[p])
        /\ rcWriter # 0 =>
            /\ Has(rcCache, RaceKey(rcEngine, rcProfile))
            /\ Get(rcCache, RaceKey(rcEngine, rcProfile)) = rcRet[rcWriter]
        /\ \A e \in rcCache :
            /\ e.key = RaceKey(rcEngine, rcProfile)
            /\ \E p \in Racers : e.vector = rcRet[p]

ScoredAlone(i) ==
    AME_findMatches([request EXCEPT !.pool = <<request.pool[i]>>], loadMockEmbeddings,
                    apiKey)

\* C26: the final score of a candidate in findMatches depends only on the
\* seeker, the candidate and the criteria: when the provider answers every
\* request, a candidate scores what it scores as the only candidate of the
\* first call of a new engine, whatever the other candidates, their order and
\* the earlier calls on the engine.
C26_ScoreOfPairOnly ==
    (Returned /\ engine = "AME" /\ response.status = "ok" /\ request.failing = {}) =>
        \A i \in 1..Len(request.pool) :
            /\ ScoredAlone(i).status = "ok"
            /\ response.scored[i].score = ScoredAlone(i).scored[1].score

(***************************************************************************)
(* Properties of the insights of findMatches.                              *)
(***************************************************************************)
IsSentence(insight) ==
    /\ insight.kind \in {"mock", "provider", "default"}
    /\ insight.sentences # <<>>

\* C27: generateMatchInsights never fails findMatches and never changes the
\* scoring: whatever the completions do, the call returns what it returns
\* when every completion answers (the same scores, the same admitted
\* candidates in the same order), each candidate scored has an insight, and
\* the insight of a candidate whose completion failed is made of the
\* sentences of getMockInsights.
C27_InsightsHarmless ==
    inResult # NoResult =>
        /\ inResult.status = inResult.smooth.status
        /\ inResult.status = "ok" =>
            /\ inResult.scored = inResult.smooth.scored
            /\ inResult.matches = inResult.smooth.matches
            /\ Len(inResult.insights) = Len(inResult.scored)
            /\ \A i \in 1..Len(inResult.insights) :
                /\ IsSentence(inResult.insights[i])
                /\ inRequest.outcomes[i] \in {"fails", "malformed"} =>
                       inResult.insights[i].kind = "mock"

C27_Witness ==
    /\ inResult # NoResult
    /\ inRequest.key = "live"
    /\ inResult.status = "ok"
    /\ Len(inResult.matches) = 2
    /\ inRequest.outcomes[1] = "fails"
    /\ inRequest.outcomes[2] = "answers"
    /\ inResult.insights[1].kind = "mock"
    /\ inResult.insights[2].kind = "provider"
    /\ inResult.matches = inResult.smooth.matches

(***************************************************************************)
(* Properties of what an engine's cache stores.                            *)
(***************************************************************************)
\* the requests before the k-th whose provider call returned the vector that
\* the k-th request uses
ReturnedBefore(k) ==
    {j \in 1..(k - 1) :
        /\ caLog[j].id = caLog[k].id
        /\ caLog[j].ok
        /\ caLog[j].vector = caLog[k].vector}

\* C28: the cache stores only vectors the provider returned: a request whose
\* provider call failed stores nothing, no entry of the cache is a substitute
\* vector, and a request answered from the cache uses a vector the provider
\* returned for the profile, so that after a failure the provider is asked
\* again.
C28_OnlyProviderVectorsStored ==
    /\ \A j \in 1..Len(caLog) : caLog[j].stored => caLog[j].ok
    /\ \A e \in caCache : ~e.vector.mock /\ e.vector # ZeroVector
    /\ \A k \in 1..Len(caLog) : caLog[k].hit => ReturnedBefore(k) # {}

(***************************************************************************)
(* Properties of the error paths of the two engines.                       *)
(***************************************************************************)
MinOf(a, b) == IF a < b THEN a ELSE b

\* C29: when findMatches has caught an error it returns the first
\* min(limit, N) candidates of the pool in the order of the pool, each with a
\* score in [0.5, 0.8) and the two fixed reasons, whatever the seeker and the
\* criteria; when findBestMatches has caught an error it returns the empty
\* list.
C29_ErrorPaths ==
    Returned =>
        /\ (engine = "AME" /\ response.status = "fallback") =>
            /\ Len(response.matches) = MinOf(LimitOf(request), Len(request.pool))
            /\ \A i \in 1..Len(response.matches) :
                /\ response.matches[i].id = request.pool[i]
                /\ Ge(response.matches[i].score, R(5, 10))
                /\ Lt(response.matches[i].score, R(8, 10))
                /\ response.matches[i].reasons = FallbackReasons
        /\ (engine = "IME" /\ response.status = "caught") => response.matches = <<>>

C29_Witness ==
    /\ Returned
    /\ engine = "AME"
    /\ response.status = "fallback"
    /\ Len(request.pool) = 2
    /\ LimitOf(request) = 1
    /\ Len(response.matches) = 1
    /\ response.matches[1].id = request.pool[1]

(***************************************************************************)
(* Properties of the route's lexical similarity.                           *)
(***************************************************************************)
\* C30: when the provider fails, the similarity calculateSemanticSimilarity
\* returns for two texts lies in [0,1], also when a text repeats a word, and
\* so do the career and mentorship sub-scores computed from it.
C30_LexicalInUnitInterval ==
    lxResult # NoResult =>
        /\ InUnit(lxResult.similarity)
        /\ InUnit(lxResult.career)
        /\ InUnit(lxResult.mentorship)

====
